---- MODULE Spec2Model ----
(***************************************************************************)
(* The generation orchestrator of services/geminiService.ts                *)
(* (generateVideoAndCaption, generateImagesAndCaptions) and the history    *)
(* recorder of the in-memory store (addToHistory), as a state machine.     *)
(*                                                                         *)
(* One action is one continuation of the async code: everything that runs  *)
(* between two awaits.  The provider (the generative-AI API), the timers   *)
(* and the caller are the environment; their answers are drawn from small  *)
(* sets.  An optional JavaScript value is a sequence of length 0           *)
(* (undefined) or 1 (the value).                                           *)
(***************************************************************************)
EXTENDS Naturals, Integers, Sequences, FiniteSets, TLC

\* ---------------------------------------------------------------- bounds

\* The most status refreshes the provider lets a video job take.
MaxPolls == 6

\* The most images the provider returns for one batch.
MaxImages == 2

\* The most results concurrent invocations forward to the recorder.
MaxForwards == 3

\* The most messages the user sends in one chat session.
MaxExchanges == 2

\* The most chunks of one streamed answer.
MaxChunks == 2

\* The most chat operations of the store started in one session.
MaxChatOps == 3

\* The most milliseconds between two readings of the clock.
MaxTick == 1

\* The most saveSheet calls made by callers other than the sheets view.
MaxSaveCalls == 3

\* The most times the sheets view is mounted.
MaxMounts == 2

\* The most prompts the user keeps in a sheet.
MaxPrompts == 2

\* The latest reading of the clock at which a sheet or a prompt is created.
MaxClock == 1

\* The most changes the user makes to the prompts of the sheets.
MaxEdits == 3

\* The most times the user presses Run Sheet.
MaxRuns == 2

\* How many times the user presses a delete button of the history view.
MaxDeletes == 2

\* How many times onAuthStateChanged is called.
MaxSubs == 2

\* How many times login and logout are called.
MaxLogins == 2
MaxLogouts == 2

\* ------------------------------------------------------------ input sets

Undefined == <<>>

Prompts == {"a red bicycle"}

\* user?.uid of the callers: none, or the mock user's uid.
UserIds == {Undefined, <<"mock-user-123">>}

\* Errors a provider call can reject with.
ProviderErrors == {"ApiError: quota", "TypeError: Failed to fetch"}

Tokens == {"op-a", "op-b"}

\* operation.response?.generatedVideos?.[0]?.video?.uri of a finished job.
Uris == {Undefined, <<"">>, <<"https://video/1?alt=media">>}

PendingHandles == [token : Tokens, done : {FALSE}, uri : {Undefined}]

DoneHandles == [token : Tokens, done : {TRUE}, uri : Uris]

\* What generateVideos and getVideosOperation can return.
Handles == PendingHandles \cup DoneHandles

NoHandle == [token |-> "none", done |-> FALSE, uri |-> Undefined]

Blobs == {"blob-1", "blob-2"}

\* captionResponse.text: undefined, empty, or a caption.
CaptionTexts == {Undefined, <<"">>, <<"Ride on! #bike">>}

\* img.image of one returned image: missing, or holding imageBytes, which
\* is itself optional.
ImagePayloads == {Undefined, <<Undefined>>, << <<"QUJD">> >>}

\* ------------------------------------------------------------- variables

VARIABLES
    kind,          \* which entry point was called: "none", "video", "image"
    pc,            \* the await the invocation is suspended at
    prompt,        \* argument prompt
    userId,        \* argument userId
    operation,     \* let operation (video)
    messageIndex,  \* let messageIndex (video)
    fetchUrl,      \* the URL handed to fetch (video)
    videoUrl,      \* const videoUrl (video)
    progress,      \* the onProgress calls so far, in order
    settled,       \* the returned promise: "pending", "resolved", "rejected"
    result,        \* what it settled with
    calls,         \* provider calls issued so far, by kind
    variations,    \* argument variations (image)
    branches,      \* the Promise.all branches of the image call
    appends,       \* the addToHistory calls started, in order
    history,       \* db.history
    nextId,        \* stands for the unique part of a stored item's id
    recorderFails, \* whether the recorder in use fails every write
    lastReturned,  \* history: the handle the provider returned last
    lastFrom,      \* history: which call returned it
    refreshArg,    \* history: the handle passed to the latest refresh
    firstRefreshAt,\* history: Len(progress) when the first refresh was issued
    loopExitAt,    \* history: Len(progress) when the poll loop was left
    raised,        \* history: where the provider failed, and with what
    answers,       \* history: the provider's blob and caption answers
    user,          \* ChatView: the user prop, as user?.uid
    chatPc,        \* ChatView: "unmounted", or where handleSubmit is suspended
    messages,      \* ChatView: state messages
    isLoading,     \* ChatView: state isLoading
    isHistoryLoading, \* ChatView: state isHistoryLoading
    modelMessage,  \* ChatView: const modelMessage of the running handleSubmit
    modelResponse, \* ChatView: let modelResponse, as the chunks concatenated
    chats,         \* db.chats
    chatOps,       \* the store's chat operations started, in order
    now,           \* Date.now()
    exchanges,     \* how many times handleSubmit went past its guard
    sheetsDb,      \* db.sheets
    sheetOps,      \* the timers of the sheet store and view still running, in order
    saveCalls,     \* how many saveSheet calls other callers have made
    svPc,          \* SheetsView: "unmounted", "loading" or "ready"
    svMount,       \* SheetsView: which mount of the view this is
    sheets,        \* SheetsView: state sheets
    activeSheet,   \* SheetsView: state activeSheet
    sheetsLoading, \* SheetsView: state isLoading
    isProcessing,  \* SheetsView: state isProcessing
    sheetError,    \* SheetsView: state error
    runPc,         \* runSheet: "none", or "awaitGen" at its await
    runPrompts,    \* runSheet: activeSheet.prompts as the call captured it
    runIdx,        \* runSheet: which captured prompt is being processed
    lastActive,    \* history: the last sheet setActiveSheet installed
    edits,         \* history: how many changes the user has made to prompts
    runs,          \* history: how many times Run Sheet was pressed
    hvPc,          \* HistoryView: "unmounted", "loading" or "ready"
    hvMount,       \* HistoryView: which mount of the view this is
    hvHistory,     \* HistoryView: state history
    hvLoading,     \* HistoryView: state isLoading
    hvError,       \* HistoryView: state error
    hvOps,         \* the view's requests to the history store still in flight
    hvLoaded,      \* history: the ids getHistory returned to this mount
    deletes,       \* history: how many times a delete button was pressed
    authStateChangeCallback, \* authService: the registered callback, 0 for null
    currentUser,   \* authService: let currentUser
    isInitialized, \* authService: let isInitialized
    subs,          \* the onAuthStateChanged calls made so far, one callback each
    logins,        \* history: how many times login was called
    logouts,       \* history: how many times logout was called
    gvView,        \* which generator view is rendered: "none", "image", "video"
    gvMount,       \* generator views: which mount this is
    gvPrompt,      \* generator views: state prompt
    gvLoading,     \* generator views: state isLoading
    gvError,       \* generator views: state error
    gvResult,      \* generator views: state generatedImages / generatedVideo
    gvResetAt,     \* how many onProgress calls had been made when the loading
                   \* message was last set to the empty string
    gvPhase,       \* history: where the latest handleGenerate of this mount is
    gvCaller       \* history: this mount made the generation call

imgVars == <<variations, branches>>

progVars == <<kind, pc, prompt, userId, operation, messageIndex, fetchUrl,
              videoUrl, progress, settled, result, calls, imgVars>>

recVars == <<appends, history, nextId, recorderFails>>

histVars == <<lastReturned, lastFrom, refreshArg, firstRefreshAt, loopExitAt,
              raised, answers>>

chatVars == <<user, chatPc, messages, isLoading, isHistoryLoading, modelMessage,
              modelResponse, chats, chatOps, now, exchanges>>

\* The state of the views and of the store's collections they use.
sheetStoreVars == <<sheetsDb, sheetOps, saveCalls>>

sheetViewVars == <<svPc, svMount, sheets, activeSheet, sheetsLoading, isProcessing,
                   sheetError, runPc, runPrompts, runIdx, lastActive, edits, runs>>

sheetVars == <<sheetStoreVars, sheetViewVars>>

\* The history view (HistoryView): its state, its requests to the store still
\* in flight, and the ids it loaded.
historyViewVars == <<hvPc, hvMount, hvHistory, hvLoading, hvError, hvOps, hvLoaded,
                     deletes>>

\* The auth service's module variables and the subscriptions made to it.
authVars == <<authStateChangeCallback, currentUser, isInitialized, subs, logins, logouts>>

\* The generator views (ImageGeneratorView, VideoGeneratorView), of which the
\* one of the active tab is rendered.
genViewVars == <<gvView, gvMount, gvPrompt, gvLoading, gvError, gvResult, gvResetAt,
                 gvPhase, gvCaller>>

\* All but the history view's own variables.
otherThanHistoryView == <<progVars, recVars, histVars, chatVars, sheetVars, authVars,
                         genViewVars>>

\* All but the auth service's variables.
otherThanAuth == <<progVars, recVars, histVars, chatVars, sheetVars, historyViewVars,
                  genViewVars>>

\* The chat view's variables but the clock.
chatState == <<user, chatPc, messages, isLoading, isHistoryLoading, modelMessage,
               modelResponse, chats, chatOps, exchanges>>

\* All but the chat view's variables.
otherThanChat == <<progVars, recVars, histVars, sheetVars, historyViewVars, authVars,
                  genViewVars>>

\* All but the sheet store's and the sheets view's variables.
otherThanSheets == <<progVars, recVars, histVars, chatVars, historyViewVars, authVars,
                    genViewVars>>

\* The same but the clock, for the steps that read it.
otherThanSheetsAndClock == <<progVars, recVars, histVars, chatState, historyViewVars,
                            authVars, genViewVars>>

\* The other views and services.
otherViews == <<chatVars, sheetVars, historyViewVars, authVars>>

viewVars == <<otherViews, genViewVars>>

vars == <<progVars, recVars, histVars, viewVars>>

\* ------------------------------------------------------ pure definitions

\* JavaScript truthiness of an optional string.
Truthy(opt) == opt # Undefined /\ opt[1] # ""

\* `${v}` of an optional string.
TemplateStr(opt) == IF opt = Undefined THEN "undefined" ELSE opt[1]

\* A string built by a template literal, kept as its parts.
StrLen(parts) == Len(parts[1]) + Len(parts[2])

MsgCrafting == "Crafting your video prompt..."

MsgSending == "Sending request to video model... this can take a few minutes."

progressMessages ==
    << "Warming up the pixels...",
       "Directing the digital actors...",
       "Composing the visual symphony...",
       "Rendering final scenes...",
       "Almost there, adding the final touches!" >>

MsgFetching == "Video generation complete! Fetching the file..."

MsgCaption == "Generating a catchy caption..."

MsgDone == "Done!"

MissingResult == "Video generation failed or returned no link."

\* calls.at: how many onProgress calls had been made when the latest call of
\* each kind was issued.
NoCalls == [submit |-> 0, refresh |-> 0, fetch |-> 0, caption |-> 0, images |-> 0,
            at |-> [submit |-> 0, refresh |-> 0, fetch |-> 0, caption |-> 0]]

\* One more provider call of kind k, issued after n onProgress calls.
Issue(c, k, n) == [c EXCEPT ![k] = @ + 1, !.at[k] = n]

NoRaise == [at |-> "none", err |-> ""]

NoAnswers == [blob |-> Undefined, caption |-> Undefined, got |-> FALSE]

Resolved(v) == <<"value", v>>

Rejected(e) == <<"error", e>>

NoResult == <<"none">>

\* URL.createObjectURL(videoBlob)
ObjectUrl(b) == <<"blob:", b>>

\* `${downloadLink}&key=${process.env.API_KEY}`
KeyedUrl(link) == <<link, "&key=">>

\* No modelMessage yet.
NoMessage == [role |-> "none", text |-> <<>>, timestamp |-> -1, prompts |-> Undefined]

\* ------------------------------------------------------------------ Init

Init ==
    /\ kind = "none"
    /\ pc = "idle"
    /\ prompt = ""
    /\ userId = Undefined
    /\ operation = NoHandle
    /\ messageIndex = 0
    /\ fetchUrl = Undefined
    /\ videoUrl = Undefined
    /\ progress = <<>>
    /\ settled = "pending"
    /\ result = NoResult
    /\ calls = NoCalls
    /\ variations = 0
    /\ branches = <<>>
    /\ appends = <<>>
    /\ history = <<>>
    /\ nextId = 1
    /\ recorderFails \in BOOLEAN
    /\ lastReturned = NoHandle
    /\ lastFrom = "none"
    /\ refreshArg = NoHandle
    /\ firstRefreshAt = -1
    /\ loopExitAt = -1
    /\ raised = NoRaise
    /\ answers = NoAnswers
    /\ user = Undefined
    /\ chatPc = "unmounted"
    /\ messages = <<>>
    /\ isLoading = FALSE
    /\ isHistoryLoading = TRUE
    /\ modelMessage = NoMessage
    /\ modelResponse = <<>>
    /\ chats = <<>>
    /\ chatOps = <<>>
    /\ now = 0
    /\ exchanges = 0
    /\ sheetsDb = <<>>
    /\ sheetOps = <<>>
    /\ saveCalls = 0
    /\ svPc = "unmounted"
    /\ svMount = 0
    /\ sheets = <<>>
    /\ activeSheet = Undefined
    /\ sheetsLoading = TRUE
    /\ isProcessing = FALSE
    /\ sheetError = Undefined
    /\ runPc = "none"
    /\ runPrompts = <<>>
    /\ runIdx = 0
    /\ lastActive = Undefined
    /\ edits = 0
    /\ runs = 0
    /\ hvPc = "unmounted"
    /\ hvMount = 0
    /\ hvHistory = <<>>
    /\ hvLoading = TRUE
    /\ hvError = Undefined
    /\ hvOps = <<>>
    /\ hvLoaded = {}
    /\ deletes = 0
    /\ authStateChangeCallback = 0
    /\ currentUser = Undefined
    /\ isInitialized = FALSE
    /\ subs = <<>>
    /\ logins = 0
    /\ logouts = 0
    /\ gvView = "none"
    /\ gvMount = 0
    /\ gvPrompt = ""
    /\ gvLoading = FALSE
    /\ gvError = Undefined
    /\ gvResult = Undefined
    /\ gvResetAt = 0
    /\ gvPhase = "idle"
    /\ gvCaller = FALSE

\* ------------------------------------------- generateVideoAndCaption

\* A provider call of the video invocation rejects: the async function throws.
VideoThrow(e) ==
    /\ settled' = "rejected"
    /\ result' = Rejected(e)
    /\ pc' = "failed"

\* Variant of ShouldPoll: keeps polling a finished job that has no link yet.
ShouldPollUntilLink(op) == ~op.done \/ ~Truthy(op.uri)

\* while (!operation.done)
ShouldPoll(op) == ~op.done

\* Variant of PollMessage: the index is clamped to the last entry, not wrapped.
PollMessageClamped(i) ==
    progressMessages[IF i < Len(progressMessages) THEN i + 1 ELSE Len(progressMessages)]

\* progressMessages[messageIndex % progressMessages.length]
PollMessage(i) == progressMessages[(i % Len(progressMessages)) + 1]

\* Variant of StartVideo: the request is submitted before any message but the first.
StartVideoOneMessage(p, u) ==
    /\ pc = "idle"
    /\ kind' = "video"
    /\ prompt' = p
    /\ userId' = u
    /\ progress' = <<MsgCrafting>>
    /\ messageIndex' = 0
    /\ calls' = Issue(calls, "submit", 1)
    /\ pc' = "awaitSubmit"
    /\ UNCHANGED <<operation, fetchUrl, videoUrl, settled, result, imgVars>>
    /\ UNCHANGED <<recVars, viewVars, histVars>>

\* Lines 63-71: the two submission messages, then the job submission; what
\* the caller does in the same run is the caller's.
StartVideoCall(p, u) ==
    /\ pc = "idle"
    /\ kind' = "video"
    /\ prompt' = p
    /\ userId' = u
    /\ progress' = <<MsgCrafting, MsgSending>>
    /\ messageIndex' = 0
    /\ calls' = Issue(calls, "submit", 2)
    /\ pc' = "awaitSubmit"
    /\ UNCHANGED <<operation, fetchUrl, videoUrl, settled, result, imgVars>>
    /\ UNCHANGED <<recVars, otherViews, histVars>>

\* generateVideoAndCaption is called by a caller the model does not follow.
StartVideo(p, u) ==
    /\ StartVideoCall(p, u)
    /\ UNCHANGED genViewVars

\* Variant of LeaveLoop: the link is used without the check of line 91.
LeaveLoopUnchecked(h) ==
    /\ loopExitAt' = Len(progress)
    /\ progress' = Append(progress, MsgFetching)
    /\ UNCHANGED messageIndex
    /\ fetchUrl' = <<KeyedUrl(TemplateStr(h.uri))>>
    /\ calls' = Issue(calls, "fetch", Len(progress) + 1)
    /\ pc' = "awaitFetch"
    /\ UNCHANGED <<settled, result, raised>>

\* Lines 89-95: the poll loop is over; extract the link and start the fetch.
LeaveLoop(h) ==
    /\ loopExitAt' = Len(progress)
    /\ progress' = Append(progress, MsgFetching)
    /\ UNCHANGED messageIndex
    /\ IF ~Truthy(h.uri)
       THEN /\ VideoThrow(MissingResult)
            /\ raised' = [at |-> "link", err |-> MissingResult]
            /\ UNCHANGED <<fetchUrl, calls>>
       ELSE /\ fetchUrl' = <<KeyedUrl(h.uri[1])>>
            /\ calls' = Issue(calls, "fetch", Len(progress) + 1)
            /\ pc' = "awaitFetch"
            /\ UNCHANGED <<settled, result, raised>>

\* Variant of LoopHead: only the submission's handle is kept in operation, so
\* every refresh is passed that first handle.
LoopHeadFirstHandle(h) ==
    /\ operation' = IF operation = NoHandle THEN h ELSE operation
    /\ IF ShouldPoll(h)
       THEN /\ progress' = Append(progress, PollMessage(messageIndex))
            /\ messageIndex' = messageIndex + 1
            /\ pc' = "sleeping"
            /\ UNCHANGED <<fetchUrl, calls, settled, result, raised, loopExitAt>>
       ELSE LeaveLoop(h)

\* Variant of LoopHead: the loop gives up after three polls.
LoopHeadCeiling(h) ==
    /\ operation' = h
    /\ IF ShouldPoll(h)
       THEN IF messageIndex >= 3
            THEN /\ VideoThrow("Error: video generation timed out")
                 /\ raised' = [at |-> "ceiling", err |-> "Error: video generation timed out"]
                 /\ UNCHANGED <<progress, messageIndex, fetchUrl, calls, loopExitAt>>
            ELSE /\ progress' = Append(progress, PollMessage(messageIndex))
                 /\ messageIndex' = messageIndex + 1
                 /\ pc' = "sleeping"
                 /\ UNCHANGED <<fetchUrl, calls, settled, result, raised, loopExitAt>>
       ELSE LeaveLoop(h)

\* Lines 82-85, with handle h just assigned to operation: the loop test, and
\* either one more iteration up to its timer or the code after the loop.
LoopHead(h) ==
    /\ operation' = h
    /\ IF ShouldPoll(h)
       THEN /\ progress' = Append(progress, PollMessage(messageIndex))
            /\ messageIndex' = messageIndex + 1
            /\ pc' = "sleeping"
            /\ UNCHANGED <<fetchUrl, calls, settled, result, raised, loopExitAt>>
       ELSE LeaveLoop(h)

\* The provider answers within MaxPolls refreshes.
ProviderMayReturn(h) == h \in Handles /\ (~h.done => calls.refresh < MaxPolls)

\* Line 67: generateVideos resolves with a handle.
VideoSubmitResolve(h) ==
    /\ pc = "awaitSubmit"
    /\ ProviderMayReturn(h)
    /\ lastReturned' = h
    /\ lastFrom' = "submit"
    /\ LoopHead(h)
    /\ UNCHANGED <<kind, prompt, userId, videoUrl, imgVars>>
    /\ UNCHANGED <<recVars, viewVars, refreshArg, firstRefreshAt, answers>>

\* Variant of VideoSubmitReject: the provider's error is replaced by a new one.
VideoSubmitRejectWrapped(e) ==
    /\ pc = "awaitSubmit"
    /\ VideoThrow("Error: video request failed")
    /\ raised' = [at |-> "submit", err |-> e]
    /\ UNCHANGED <<kind, prompt, userId, operation, messageIndex, fetchUrl,
                   videoUrl, progress, calls, imgVars>>
    /\ UNCHANGED <<recVars, viewVars, lastReturned, lastFrom, refreshArg, firstRefreshAt,
                   loopExitAt, answers>>

\* Line 67: generateVideos rejects.
VideoSubmitReject(e) ==
    /\ pc = "awaitSubmit"
    /\ VideoThrow(e)
    /\ raised' = [at |-> "submit", err |-> e]
    /\ UNCHANGED <<kind, prompt, userId, operation, messageIndex, fetchUrl,
                   videoUrl, progress, calls, imgVars>>
    /\ UNCHANGED <<recVars, viewVars, lastReturned, lastFrom, refreshArg, firstRefreshAt,
                   loopExitAt, answers>>

\* Lines 85-86: the 10 s timer fires and the refresh is issued.
PollTimer ==
    /\ pc = "sleeping"
    /\ refreshArg' = operation
    /\ calls' = Issue(calls, "refresh", Len(progress))
    /\ firstRefreshAt' = IF firstRefreshAt = -1 THEN Len(progress) ELSE firstRefreshAt
    /\ pc' = "awaitRefresh"
    /\ UNCHANGED <<kind, prompt, userId, operation, messageIndex, fetchUrl,
                   videoUrl, progress, settled, result, imgVars>>
    /\ UNCHANGED <<recVars, viewVars, lastReturned, lastFrom, loopExitAt, raised, answers>>

\* Line 86: getVideosOperation resolves; its handle replaces operation.
VideoRefreshResolve(h) ==
    /\ pc = "awaitRefresh"
    /\ ProviderMayReturn(h)
    /\ lastReturned' = h
    /\ lastFrom' = "refresh"
    /\ LoopHead(h)
    /\ UNCHANGED <<kind, prompt, userId, videoUrl, imgVars>>
    /\ UNCHANGED <<recVars, viewVars, refreshArg, firstRefreshAt, answers>>

\* Variant of VideoRefreshReject: the rejection reaches the caller but the
\* poll loop is not stopped.
VideoRefreshRejectLoose(e) ==
    /\ pc = "awaitRefresh"
    /\ settled' = "rejected"
    /\ result' = Rejected(e)
    /\ raised' = [at |-> "refresh", err |-> e]
    /\ pc' = "sleeping"
    /\ UNCHANGED <<kind, prompt, userId, operation, messageIndex, fetchUrl,
                   videoUrl, progress, calls, imgVars>>
    /\ UNCHANGED <<recVars, viewVars, lastReturned, lastFrom, refreshArg, firstRefreshAt,
                   loopExitAt, answers>>

\* Line 86: getVideosOperation rejects.
VideoRefreshReject(e) ==
    /\ pc = "awaitRefresh"
    /\ VideoThrow(e)
    /\ raised' = [at |-> "refresh", err |-> e]
    /\ UNCHANGED <<kind, prompt, userId, operation, messageIndex, fetchUrl,
                   videoUrl, progress, calls, imgVars>>
    /\ UNCHANGED <<recVars, viewVars, lastReturned, lastFrom, refreshArg, firstRefreshAt,
                   loopExitAt, answers>>

\* Lines 95-96: fetch resolves; blob() is awaited next.
VideoFetchResolve ==
    /\ pc = "awaitFetch"
    /\ pc' = "awaitBlob"
    /\ UNCHANGED <<kind, prompt, userId, operation, messageIndex, fetchUrl,
                   videoUrl, progress, settled, result, calls, imgVars>>
    /\ UNCHANGED <<recVars, viewVars, histVars>>

\* Variant of VideoFetchReject: a failed fetch is tried again.
VideoFetchRejectRetry(e) ==
    /\ pc = "awaitFetch"
    /\ raised' = [at |-> "fetch", err |-> e]
    /\ calls' = Issue(calls, "fetch", Len(progress))
    /\ UNCHANGED <<kind, pc, prompt, userId, operation, messageIndex, fetchUrl,
                   videoUrl, progress, settled, result, imgVars>>
    /\ UNCHANGED <<recVars, viewVars, lastReturned, lastFrom, refreshArg, firstRefreshAt,
                   loopExitAt, answers>>

\* Line 95: fetch rejects.
VideoFetchReject(e) ==
    /\ pc = "awaitFetch"
    /\ VideoThrow(e)
    /\ raised' = [at |-> "fetch", err |-> e]
    /\ UNCHANGED <<kind, prompt, userId, operation, messageIndex, fetchUrl,
                   videoUrl, progress, calls, imgVars>>
    /\ UNCHANGED <<recVars, viewVars, lastReturned, lastFrom, refreshArg, firstRefreshAt,
                   loopExitAt, answers>>

\* Variant of VideoBlobResolve: the caption request goes out before its message.
VideoBlobResolveLate(b) ==
    /\ pc = "awaitBlob"
    /\ videoUrl' = <<ObjectUrl(b)>>
    /\ calls' = Issue(calls, "caption", Len(progress))
    /\ progress' = Append(progress, MsgCaption)
    /\ answers' = [answers EXCEPT !.blob = <<b>>]
    /\ pc' = "awaitCaption"
    /\ UNCHANGED <<kind, prompt, userId, operation, messageIndex, fetchUrl,
                   settled, result, imgVars>>
    /\ UNCHANGED <<recVars, viewVars, lastReturned, lastFrom, refreshArg, firstRefreshAt,
                   loopExitAt, raised>>

\* Lines 96-104: the blob arrives; object URL, caption message, caption request.
VideoBlobResolve(b) ==
    /\ pc = "awaitBlob"
    /\ videoUrl' = <<ObjectUrl(b)>>
    /\ progress' = Append(progress, MsgCaption)
    /\ calls' = Issue(calls, "caption", Len(progress) + 1)
    /\ answers' = [answers EXCEPT !.blob = <<b>>]
    /\ pc' = "awaitCaption"
    /\ UNCHANGED <<kind, prompt, userId, operation, messageIndex, fetchUrl,
                   settled, result, imgVars>>
    /\ UNCHANGED <<recVars, viewVars, lastReturned, lastFrom, refreshArg, firstRefreshAt,
                   loopExitAt, raised>>

\* Line 96: blob() rejects.
VideoBlobReject(e) ==
    /\ pc = "awaitBlob"
    /\ VideoThrow(e)
    /\ raised' = [at |-> "blob", err |-> e]
    /\ UNCHANGED <<kind, prompt, userId, operation, messageIndex, fetchUrl,
                   videoUrl, progress, calls, imgVars>>
    /\ UNCHANGED <<recVars, viewVars, lastReturned, lastFrom, refreshArg, firstRefreshAt,
                   loopExitAt, answers>>

\* addToHistory(userId, itemData) is called and not awaited (lines 47, 114).
StartAppend(u, item) == Append(appends, [user |-> u, item |-> item, st |-> "sleeping"])

\* Variant of VideoCaptionResolve: the append is made whether or not a user id
\* was given.
VideoCaptionResolveAlways(t) ==
    /\ pc = "awaitCaption"
    /\ progress' = Append(progress, MsgDone)
    /\ answers' = [answers EXCEPT !.caption = t, !.got = TRUE]
    /\ LET res == [url |-> videoUrl[1], caption |-> t]
       IN /\ appends' = StartAppend(TemplateStr(userId),
                             [url |-> res.url, caption |-> res.caption,
                              prompt |-> prompt, type |-> "video"])
          /\ result' = Resolved(res)
    /\ settled' = "resolved"
    /\ pc' = "done"
    /\ UNCHANGED <<kind, prompt, userId, operation, messageIndex, fetchUrl,
                   videoUrl, calls, imgVars>>
    /\ UNCHANGED <<history, nextId, recorderFails, viewVars>>
    /\ UNCHANGED <<lastReturned, lastFrom, refreshArg, firstRefreshAt,
                   loopExitAt, raised>>

\* Lines 101-117: the caption arrives; last message, result, history, return.
VideoCaptionResolve(t) ==
    /\ pc = "awaitCaption"
    /\ progress' = Append(progress, MsgDone)
    /\ answers' = [answers EXCEPT !.caption = t, !.got = TRUE]
    /\ LET res == [url |-> videoUrl[1], caption |-> t]
       IN /\ appends' = IF Truthy(userId)
                        THEN StartAppend(userId[1],
                                 [url |-> res.url, caption |-> res.caption,
                                  prompt |-> prompt, type |-> "video"])
                        ELSE appends
          /\ result' = Resolved(res)
    /\ settled' = "resolved"
    /\ pc' = "done"
    /\ UNCHANGED <<kind, prompt, userId, operation, messageIndex, fetchUrl,
                   videoUrl, calls, imgVars>>
    /\ UNCHANGED <<history, nextId, recorderFails, viewVars>>
    /\ UNCHANGED <<lastReturned, lastFrom, refreshArg, firstRefreshAt,
                   loopExitAt, raised>>

\* Line 101: generateContent rejects.
VideoCaptionReject(e) ==
    /\ pc = "awaitCaption"
    /\ VideoThrow(e)
    /\ raised' = [at |-> "caption", err |-> e]
    /\ UNCHANGED <<kind, prompt, userId, operation, messageIndex, fetchUrl,
                   videoUrl, progress, calls, imgVars>>
    /\ UNCHANGED <<recVars, viewVars, lastReturned, lastFrom, refreshArg, firstRefreshAt,
                   loopExitAt, answers>>

\* ----------------------------------------- generateImagesAndCaptions

\* What generateImages can resolve with: generatedImages missing, or a list
\* of at most the requested number of images.
ImageLists(n) == UNION {[1..k -> ImagePayloads] : k \in 0..n}

ImageResponses(n) == {Undefined} \cup {<<l>> : l \in ImageLists(n)}

TypeErrorNoList == "TypeError: Cannot read properties of undefined (reading 'map')"

TypeErrorNoImage == "TypeError: Cannot read properties of undefined (reading 'imageBytes')"

\* `data:image/jpeg;base64,${img.image.imageBytes}`
DataUrl(bytes) == <<"data:image/jpeg;base64,", TemplateStr(bytes)>>

\* Lines 32-39: the map callback up to its first await, for one image.
StartBranch(img) ==
    IF img = Undefined
    THEN [st |-> "rejected", img |-> img, url |-> Undefined,
          text |-> Undefined, caption |-> Undefined]
    ELSE [st |-> "awaitCaption", img |-> img, url |-> <<DataUrl(img[1])>>,
          text |-> Undefined, caption |-> Undefined]

AllResolved(bs) == \A i \in 1..Len(bs) : bs[i].st = "resolved"

\* Variant of BatchResult: the results in the opposite order.
BatchResultReversed(bs) ==
    [i \in 1..Len(bs) |-> [url |-> bs[Len(bs) + 1 - i].url[1],
                           caption |-> bs[Len(bs) + 1 - i].caption]]

\* return generatedImages: the branches' results, in the list's order.
BatchResult(bs) == [i \in 1..Len(bs) |-> [url |-> bs[i].url[1], caption |-> bs[i].caption]]

\* Lines 17-29: the batch request is issued.
StartImagesCall(p, n, u) ==
    /\ pc = "idle"
    /\ kind' = "image"
    /\ prompt' = p
    /\ variations' = n
    /\ userId' = u
    /\ calls' = [calls EXCEPT !.images = @ + 1]
    /\ pc' = "awaitImages"
    /\ UNCHANGED <<operation, messageIndex, fetchUrl, videoUrl, progress,
                   settled, result, branches>>
    /\ UNCHANGED <<recVars, otherViews, histVars>>

\* generateImagesAndCaptions is called by a caller the model does not follow.
StartImages(p, n, u) ==
    /\ StartImagesCall(p, n, u)
    /\ UNCHANGED genViewVars

\* Variant of ImagesReject: the failure is caught and an empty batch returned.
ImagesRejectSwallowed(e) ==
    /\ pc = "awaitImages"
    /\ settled' = "resolved"
    /\ result' = Resolved(<<>>)
    /\ raised' = [at |-> "images", err |-> e]
    /\ pc' = "done"
    /\ UNCHANGED <<kind, prompt, userId, operation, messageIndex, fetchUrl,
                   videoUrl, progress, calls, imgVars>>
    /\ UNCHANGED <<recVars, viewVars, lastReturned, lastFrom, refreshArg, firstRefreshAt,
                   loopExitAt, answers>>

\* Line 21: generateImages rejects.
ImagesReject(e) ==
    /\ pc = "awaitImages"
    /\ settled' = "rejected"
    /\ result' = Rejected(e)
    /\ raised' = [at |-> "images", err |-> e]
    /\ pc' = "failed"
    /\ UNCHANGED <<kind, prompt, userId, operation, messageIndex, fetchUrl,
                   videoUrl, progress, calls, imgVars>>
    /\ UNCHANGED <<recVars, viewVars, lastReturned, lastFrom, refreshArg, firstRefreshAt,
                   loopExitAt, answers>>

\* Lines 21-54: generateImages resolves; every branch runs to its caption
\* request, and Promise.all settles at once when a branch has already thrown
\* or when there is no branch.
ImagesResolve(resp) ==
    /\ pc = "awaitImages"
    /\ resp \in ImageResponses(variations)
    /\ IF resp = Undefined
       THEN /\ settled' = "rejected"
            /\ result' = Rejected(TypeErrorNoList)
            /\ raised' = [at |-> "list", err |-> TypeErrorNoList]
            /\ pc' = "failed"
            /\ UNCHANGED <<branches, calls>>
       ELSE LET bs == [i \in 1..Len(resp[1]) |-> StartBranch(resp[1][i])]
                asked == Cardinality({i \in 1..Len(bs) : bs[i].st = "awaitCaption"})
            IN /\ branches' = bs
               /\ calls' = [calls EXCEPT !.caption = @ + asked]
               /\ IF \E i \in 1..Len(bs) : bs[i].st = "rejected"
                  THEN /\ settled' = "rejected"
                       /\ result' = Rejected(TypeErrorNoImage)
                       /\ raised' = [at |-> "image", err |-> TypeErrorNoImage]
                       /\ pc' = "failed"
                  ELSE IF bs = <<>>
                  THEN /\ settled' = "resolved"
                       /\ result' = Resolved(<<>>)
                       /\ pc' = "done"
                       /\ UNCHANGED raised
                  ELSE /\ pc' = "awaitCaptions"
                       /\ UNCHANGED <<settled, result, raised>>
    /\ UNCHANGED <<kind, prompt, userId, variations, operation, messageIndex,
                   fetchUrl, videoUrl, progress>>
    /\ UNCHANGED <<recVars, viewVars, lastReturned, lastFrom, refreshArg, firstRefreshAt,
                   loopExitAt, answers>>

\* Variant of ImageCaptionResolve: a rejected join cancels the branches still
\* waiting for their caption.
ImageCaptionResolveCancelled(i, t) ==
    /\ i \in 1..Len(branches)
    /\ branches[i].st = "awaitCaption"
    /\ settled = "pending"
    /\ LET res == [url |-> branches[i].url[1], caption |-> t]
           bs == [branches EXCEPT ![i].st = "resolved", ![i].text = t,
                                  ![i].caption = res.caption]
       IN /\ branches' = bs
          /\ appends' = IF Truthy(userId)
                        THEN StartAppend(userId[1],
                                 [url |-> res.url, caption |-> res.caption,
                                  prompt |-> prompt, type |-> "image"])
                        ELSE appends
          /\ IF AllResolved(bs)
             THEN /\ settled' = "resolved"
                  /\ result' = Resolved(BatchResult(bs))
                  /\ pc' = "done"
             ELSE UNCHANGED <<settled, result, pc>>
    /\ UNCHANGED <<kind, prompt, userId, variations, operation, messageIndex,
                   fetchUrl, videoUrl, progress, calls>>
    /\ UNCHANGED <<history, nextId, recorderFails, viewVars, histVars>>

\* The appends of every branch of bs, in the list's order, after those of done.
RECURSIVE AppendAll(_, _, _, _)
AppendAll(done, bs, u, p) ==
    IF bs = <<>>
    THEN done
    ELSE AppendAll(Append(done, [user |-> u,
                                 item |-> [url |-> Head(bs).url[1],
                                           caption |-> Head(bs).caption,
                                           prompt |-> p, type |-> "image"],
                                 st |-> "sleeping"]),
                   Tail(bs), u, p)

\* Variant of ImageCaptionResolve: the results are forwarded to the recorder
\* together, once the last caption has arrived.
ImageCaptionResolveBatched(i, t) ==
    /\ i \in 1..Len(branches)
    /\ branches[i].st = "awaitCaption"
    /\ LET res == [url |-> branches[i].url[1], caption |-> t]
           bs == [branches EXCEPT ![i].st = "resolved", ![i].text = t,
                                  ![i].caption = res.caption]
       IN /\ branches' = bs
          /\ appends' = IF Truthy(userId) /\ AllResolved(bs)
                        THEN AppendAll(appends, bs, userId[1], prompt)
                        ELSE appends
          /\ IF AllResolved(bs) /\ settled = "pending"
             THEN /\ settled' = "resolved"
                  /\ result' = Resolved(BatchResult(bs))
                  /\ pc' = "done"
             ELSE UNCHANGED <<settled, result, pc>>
    /\ UNCHANGED <<kind, prompt, userId, variations, operation, messageIndex,
                   fetchUrl, videoUrl, progress, calls>>
    /\ UNCHANGED <<history, nextId, recorderFails, viewVars, histVars>>

\* Lines 36-50: the caption of image i arrives; its result, its history
\* append, and the join when it was the last branch.
ImageCaptionResolve(i, t) ==
    /\ i \in 1..Len(branches)
    /\ branches[i].st = "awaitCaption"
    /\ LET res == [url |-> branches[i].url[1], caption |-> t]
           bs == [branches EXCEPT ![i].st = "resolved", ![i].text = t,
                                  ![i].caption = res.caption]
       IN /\ branches' = bs
          /\ appends' = IF Truthy(userId)
                        THEN StartAppend(userId[1],
                                 [url |-> res.url, caption |-> res.caption,
                                  prompt |-> prompt, type |-> "image"])
                        ELSE appends
          /\ IF AllResolved(bs) /\ settled = "pending"
             THEN /\ settled' = "resolved"
                  /\ result' = Resolved(BatchResult(bs))
                  /\ pc' = "done"
             ELSE UNCHANGED <<settled, result, pc>>
    /\ UNCHANGED <<kind, prompt, userId, variations, operation, messageIndex,
                   fetchUrl, videoUrl, progress, calls>>
    /\ UNCHANGED <<history, nextId, recorderFails, viewVars, histVars>>

\* Line 36: the caption request of image i rejects; Promise.all rejects with
\* the first rejection only.
ImageCaptionReject(i, e) ==
    /\ i \in 1..Len(branches)
    /\ branches[i].st = "awaitCaption"
    /\ branches' = [branches EXCEPT ![i].st = "rejected"]
    /\ IF settled = "pending"
       THEN /\ settled' = "rejected"
            /\ result' = Rejected(e)
            /\ raised' = [at |-> "caption", err |-> e]
            /\ pc' = "failed"
       ELSE UNCHANGED <<settled, result, raised, pc>>
    /\ UNCHANGED <<kind, prompt, userId, variations, operation, messageIndex,
                   fetchUrl, videoUrl, progress, calls>>
    /\ UNCHANGED <<recVars, viewVars, lastReturned, lastFrom, refreshArg, firstRefreshAt,
                   loopExitAt, answers>>

\* ------------------------------------------------------- addToHistory

\* Timers of equal delay fire in the order they were set: the append whose
\* latency ends next is the earliest one still sleeping.
NextAppend == CHOOSE i \in 1..Len(appends) :
                  /\ appends[i].st = "sleeping"
                  /\ \A j \in 1..(i - 1) : appends[j].st # "sleeping"

SomeAppendSleeping == \E i \in 1..Len(appends) : appends[i].st = "sleeping"

\* Variant of AppendComplete: the user's list is created anew by every write.
AppendCompleteResets ==
    /\ SomeAppendSleeping
    /\ ~recorderFails
    /\ LET i == NextAppend
           u == appends[i].user
           newItem == [id |-> nextId, type |-> appends[i].item.type,
                       prompt |-> appends[i].item.prompt,
                       url |-> appends[i].item.url,
                       caption |-> appends[i].item.caption,
                       timestamp |-> now]
       IN /\ history' = (u :> <<newItem>>) @@ history
          /\ appends' = [appends EXCEPT ![i].st = "stored"]
    /\ nextId' = nextId + 1
    /\ UNCHANGED <<progVars, recorderFails, viewVars, histVars>>

\* store lines 26-36: after the latency, the item gets its id and is pushed.
AppendComplete ==
    /\ SomeAppendSleeping
    /\ ~recorderFails
    /\ LET i == NextAppend
           u == appends[i].user
           list == IF u \in DOMAIN history THEN history[u] ELSE <<>>
           newItem == [id |-> nextId, type |-> appends[i].item.type,
                       prompt |-> appends[i].item.prompt,
                       url |-> appends[i].item.url,
                       caption |-> appends[i].item.caption,
                       timestamp |-> now]
       IN /\ history' = (u :> Append(list, newItem)) @@ history
          /\ appends' = [appends EXCEPT ![i].st = "stored"]
    /\ nextId' = nextId + 1
    /\ UNCHANGED <<progVars, recorderFails, viewVars, histVars>>

\* Variant of AppendFail: the recorder's rejection reaches the caller, as it
\* would were the append awaited.
AppendFailSurfaces ==
    /\ SomeAppendSleeping
    /\ recorderFails
    /\ appends' = [appends EXCEPT ![NextAppend].st = "failed"]
    /\ settled' = "rejected"
    /\ result' = Rejected("Error: history write failed")
    /\ UNCHANGED <<kind, pc, prompt, userId, operation, messageIndex, fetchUrl,
                   videoUrl, progress, calls, imgVars>>
    /\ UNCHANGED <<history, nextId, recorderFails, viewVars, histVars>>

\* The write of a failing recorder: the promise nobody awaits rejects.
AppendFail ==
    /\ SomeAppendSleeping
    /\ recorderFails
    /\ appends' = [appends EXCEPT ![NextAppend].st = "failed"]
    /\ UNCHANGED <<progVars, history, nextId, recorderFails, viewVars, histVars>>

\* ------------------------------------------- concurrent invocations

\* The user ids the recorder is called with: the mock user's and another's.
HistoryUsers == {"mock-user-123", "mock-user-456"}

\* Results that invocations forward: a video's and an image's.
ForwardedItems ==
    {[url |-> ObjectUrl("blob-1"), caption |-> <<"Ride on! #bike">>,
      prompt |-> "a red bicycle", type |-> "video"],
     [url |-> DataUrl(<<"QUJD">>), caption |-> <<"">>,
      prompt |-> "a red bicycle", type |-> "image"]}

\* Lines 46-48 and 113-115 of any of several invocations in progress: one
\* more result is handed to addToHistory, which is not awaited.
ForwardResult(u, item) ==
    /\ Len(appends) < MaxForwards
    /\ appends' = StartAppend(u, item)
    /\ UNCHANGED <<progVars, history, nextId, recorderFails, viewVars, histVars>>

\* ------------------------------------------------------------ ChatView

\* What the user types: nothing, blanks, or a message.
ChatInputs == {"", "  ", "hi"}

\* input.trim() of those.
Trim(text) == IF text \in {"", "  "} THEN "" ELSE text

\* A fenced JSON list of one prompt; ''' stands for the fence of three
\* backquotes.
JsonBlock == "'''json [\"a red bicycle\"] '''"

\* chunk.text of a streamed chunk: plain text, or a fenced JSON list.
ChunkTexts == {<<"Here you go: ">>, <<JsonBlock>>}

MsgChatError == "Sorry, I encountered an error. Please try again."

\* parsePromptsFromJson(text) ?? undefined, text being the chunks in order.
parsePromptsFromJson(text) ==
    IF \E i \in 1..Len(text) : text[i] = JsonBlock
    THEN << <<"a red bicycle">> >>
    ELSE Undefined

\* prev.map(msg => msg.timestamp === modelMessage.timestamp ? {...} : msg)
\* of lines 98-100.
WithText(prev, ts, text) ==
    [i \in 1..Len(prev) |->
        IF prev[i].timestamp = ts THEN [prev[i] EXCEPT !.text = text] ELSE prev[i]]

\* The same of lines 105-109, which also sets prompts.
WithFinal(prev, ts, text) ==
    [i \in 1..Len(prev) |->
        IF prev[i].timestamp = ts
        THEN [prev[i] EXCEPT !.text = text, !.prompts = parsePromptsFromJson(text)]
        ELSE prev[i]]

\* db.chats[userId], when there is one.
StoredChat(u) == IF u \in DOMAIN chats THEN chats[u] ELSE <<>>

\* A store operation is called: its latency timer is set.
StartChatOp(op, u, msgs) ==
    Append(chatOps, [op |-> op, user |-> u, messages |-> msgs, st |-> "sleeping"])

\* simulateLatency: 150 ms for getChatHistory, 50 ms for the writes.
Latency(op) == IF op = "load" THEN 150 ELSE 50

\* Operation i may be the next whose timer fires: no operation started
\* before it with at most its latency is still sleeping.
MayComplete(i) ==
    /\ i \in 1..Len(chatOps)
    /\ chatOps[i].st = "sleeping"
    /\ \A j \in 1..(i - 1) :
           chatOps[j].st = "sleeping" => Latency(chatOps[j].op) > Latency(chatOps[i].op)

\* Lines 55-66: the component is mounted with its user prop and the effect
\* that loads the history runs.
ChatMount(u) ==
    /\ chatPc = "unmounted"
    /\ user' = u
    /\ chatPc' = "idle"
    /\ IF u # Undefined
       THEN /\ isHistoryLoading' = TRUE
            /\ chatOps' = StartChatOp("load", u[1], <<>>)
            /\ UNCHANGED messages
       ELSE /\ messages' = <<>>
            /\ isHistoryLoading' = FALSE
            /\ UNCHANGED chatOps
    /\ UNCHANGED <<isLoading, modelMessage, modelResponse, chats, now, exchanges>>
    /\ UNCHANGED otherThanChat

\* store lines 46-52 and view lines 58-61: getChatHistory's latency ends and
\* its copy of the stored list replaces messages.
GetChatHistoryComplete(i) ==
    /\ MayComplete(i)
    /\ chatOps[i].op = "load"
    /\ LET u == chatOps[i].user
       IN /\ chats' = IF u \in DOMAIN chats THEN chats ELSE (u :> <<>>) @@ chats
          /\ messages' = StoredChat(u)
    /\ isHistoryLoading' = FALSE
    /\ chatOps' = [chatOps EXCEPT ![i].st = "done"]
    /\ UNCHANGED <<user, chatPc, isLoading, modelMessage, modelResponse, now, exchanges>>
    /\ UNCHANGED otherThanChat

\* Lines 75-87: handleSubmit up to its await of sendMessageStream.
HandleSubmit(text, d) ==
    /\ chatPc = "idle"
    /\ ~(Trim(text) = "" \/ isLoading)
    /\ exchanges < MaxExchanges
    /\ now' = now + d
    /\ messages' = Append(messages, [role |-> "user", text |-> <<text>>,
                                      timestamp |-> now', prompts |-> Undefined])
    /\ isLoading' = TRUE
    /\ chatPc' = "awaitStream"
    /\ exchanges' = exchanges + 1
    /\ UNCHANGED <<user, isHistoryLoading, modelMessage, modelResponse, chats, chatOps>>
    /\ UNCHANGED otherThanChat

\* Lines 87-94: the stream is opened and the empty model message appended.
ChatStreamResolve(d) ==
    /\ chatPc = "awaitStream"
    /\ now' = now + d
    /\ modelResponse' = <<>>
    /\ modelMessage' = [role |-> "model", text |-> <<>>, timestamp |-> now',
                        prompts |-> Undefined]
    /\ messages' = Append(messages, modelMessage')
    /\ chatPc' = "streaming"
    /\ UNCHANGED <<user, isLoading, isHistoryLoading, chats, chatOps, exchanges>>
    /\ UNCHANGED otherThanChat

\* Lines 96-101: one chunk arrives.
ChatStreamChunk(c) ==
    /\ chatPc = "streaming"
    /\ Len(modelResponse) < MaxChunks
    /\ modelResponse' = Append(modelResponse, TemplateStr(c))
    /\ messages' = WithText(messages, modelMessage.timestamp, modelResponse')
    /\ UNCHANGED <<user, chatPc, isLoading, isHistoryLoading, modelMessage, chats,
                   chatOps, now, exchanges>>
    /\ UNCHANGED otherThanChat

\* Lines 103-114 and 125: the stream ends; the final messages are set and,
\* with a user, handed to saveChatHistory, which is not awaited.
ChatStreamEnd ==
    /\ chatPc = "streaming"
    /\ LET finalMessages == WithFinal(messages, modelMessage.timestamp, modelResponse)
       IN /\ messages' = finalMessages
          /\ chatOps' = IF user # Undefined
                        THEN StartChatOp("save", user[1], finalMessages)
                        ELSE chatOps
    /\ isLoading' = FALSE
    /\ chatPc' = "idle"
    /\ UNCHANGED <<user, isHistoryLoading, modelMessage, modelResponse, chats, now,
                   exchanges>>
    /\ UNCHANGED otherThanChat

\* Lines 116-126: sendMessageStream or the stream rejects; the error message
\* is appended.
ChatStreamReject(d) ==
    /\ chatPc \in {"awaitStream", "streaming"}
    /\ now' = now + d
    /\ messages' = Append(messages, [role |-> "model", text |-> <<MsgChatError>>,
                                      timestamp |-> now', prompts |-> Undefined])
    /\ isLoading' = FALSE
    /\ chatPc' = "idle"
    /\ UNCHANGED <<user, isHistoryLoading, modelMessage, modelResponse, chats,
                   chatOps, exchanges>>
    /\ UNCHANGED otherThanChat

\* store lines 54-57: saveChatHistory's latency ends and the list is stored.
SaveChatHistoryComplete(i) ==
    /\ MayComplete(i)
    /\ chatOps[i].op = "save"
    /\ chats' = (chatOps[i].user :> chatOps[i].messages) @@ chats
    /\ chatOps' = [chatOps EXCEPT ![i].st = "done"]
    /\ UNCHANGED <<user, chatPc, messages, isLoading, isHistoryLoading, modelMessage,
                   modelResponse, now, exchanges>>
    /\ UNCHANGED otherThanChat

\* Lines 129-136: handleNewChat, confirmed.
HandleNewChat ==
    /\ chatPc # "unmounted"
    /\ user # Undefined => Len(chatOps) < MaxChatOps
    /\ messages' = <<>>
    /\ chatOps' = IF user # Undefined
                  THEN StartChatOp("clear", user[1], <<>>)
                  ELSE chatOps
    /\ UNCHANGED <<user, chatPc, isLoading, isHistoryLoading, modelMessage,
                   modelResponse, chats, now, exchanges>>
    /\ UNCHANGED otherThanChat

\* store lines 59-62: clearChatHistory's latency ends.
ClearChatHistoryComplete(i) ==
    /\ MayComplete(i)
    /\ chatOps[i].op = "clear"
    /\ chats' = (chatOps[i].user :> <<>>) @@ chats
    /\ chatOps' = [chatOps EXCEPT ![i].st = "done"]
    /\ UNCHANGED <<user, chatPc, messages, isLoading, isHistoryLoading, modelMessage,
                   modelResponse, now, exchanges>>
    /\ UNCHANGED otherThanChat

\* ------------------------------------------------------ the sheet store

\* db.sheets[userId], when there is one.
StoredSheets(db, u) == IF u \in DOMAIN db THEN db[u] ELSE <<>>

\* The sequence without its i-th element.
RemoveAt(seq, i) == [j \in 1..(Len(seq) - 1) |-> IF j < i THEN seq[j] ELSE seq[j + 1]]

\* simulateLatency of the sheet operations and the view's debounce delay.
SheetLatency(k) ==
    CASE k \in {"save", "saveDefault"} -> 100
      [] k = "get" -> 200
      [] OTHER -> 1000

\* A timer is set: it joins the timers still running.
StartSheetOp(ops, k, m, u, sheet) ==
    Append(ops, [kind |-> k, mount |-> m, user |-> u, sheet |-> sheet])

\* Timer i may be the next to fire: no timer set before it with at most its
\* delay is still running.
SheetOpMayFire(i) ==
    /\ i \in 1..Len(sheetOps)
    /\ \A j \in 1..(i - 1) :
           SheetLatency(sheetOps[j].kind) > SheetLatency(sheetOps[i].kind)

\* db.sheets[userId].findIndex(s => s.id === sheetToSave.id), from 1; 0 for -1.
FindIndex(list, id) ==
    IF \E i \in 1..Len(list) : list[i].id = id
    THEN CHOOSE i \in 1..Len(list) :
             /\ list[i].id = id
             /\ \A j \in 1..(i - 1) : list[j].id # id
    ELSE 0

\* store lines 74-82: the write of saveSheet.
Upsert(db, u, sheet) ==
    LET list == StoredSheets(db, u)
        sheetIndex == FindIndex(list, sheet.id)
    IN (u :> IF sheetIndex > 0
             THEN [list EXCEPT ![sheetIndex] = sheet]
             ELSE Append(list, sheet)) @@ db

\* Sheets that callers pass to saveSheet: two ids, each in two versions.
SavedSheets ==
    {[id |-> <<"sheet-", n>>, name |-> "My First Image Sheet", type |-> "image",
      prompts |-> ps] :
        n \in 1..2,
        ps \in {<<>>, <<[id |-> <<"prompt-", 1>>, prompt |-> "a red bicycle",
                         status |-> "pending", resultUrl |-> Undefined,
                         caption |-> Undefined]>>}}

\* store line 72: some caller calls saveSheet(u, sheet).
CallSaveSheet(u, sheet) ==
    /\ saveCalls < MaxSaveCalls
    /\ saveCalls' = saveCalls + 1
    /\ sheetOps' = StartSheetOp(sheetOps, "save", 0, u, sheet)
    /\ UNCHANGED sheetsDb
    /\ UNCHANGED <<sheetViewVars, otherThanSheets>>

\* Variant of SaveSheetComplete: the sheet is pushed whatever the list holds.
SaveSheetCompletePush(i) ==
    /\ SheetOpMayFire(i)
    /\ sheetOps[i].kind = "save"
    /\ sheetsDb' = (sheetOps[i].user :>
                        Append(StoredSheets(sheetsDb, sheetOps[i].user), sheetOps[i].sheet))
                    @@ sheetsDb
    /\ sheetOps' = RemoveAt(sheetOps, i)
    /\ UNCHANGED saveCalls
    /\ UNCHANGED <<sheetViewVars, otherThanSheets>>

\* store lines 73-83: saveSheet's latency ends and the sheet is written.
SaveSheetComplete(i) ==
    /\ SheetOpMayFire(i)
    /\ sheetOps[i].kind = "save"
    /\ sheetsDb' = Upsert(sheetsDb, sheetOps[i].user, sheetOps[i].sheet)
    /\ sheetOps' = RemoveAt(sheetOps, i)
    /\ UNCHANGED saveCalls
    /\ UNCHANGED <<sheetViewVars, otherThanSheets>>

\* ---------------------------------------------------------- SheetsView

\* user.uid of the view's user prop; App renders the view only when signed in.
SheetUser == "mock-user-123"

\* What the user types into a prompt: blanks, or a prompt.
SheetTexts == {"  ", "a red bicycle"}

\* What the generation call of a sheet prompt resolves with: an empty batch,
\* or one result.
SheetGenResults ==
    {<<>>, <<[url |-> DataUrl(<<"QUJD">>), caption |-> <<"Ride on! #bike">>]>>}

\* Lines 28-33, with the clock at t.
DefaultSheet(t) ==
    [id |-> <<"sheet-", t>>, name |-> "My First Image Sheet", type |-> "image",
     prompts |-> <<[id |-> <<"prompt-", t>>, prompt |-> "", status |-> "pending",
                    resultUrl |-> Undefined, caption |-> Undefined]>>]

\* Lines 79-81: the effect's cleanup clears the timer it set.
CancelDebounce(ops, m) ==
    SelectSeq(ops, LAMBDA o : ~(o.kind = "debounce" /\ o.mount = m))

\* Lines 73-82: activeSheet has changed to a; the effect runs again.
Reschedule(ops, m, a) == StartSheetOp(CancelDebounce(ops, m), "debounce", m, SheetUser, a)

\* prev ? { ...prev, prompts: prev.prompts.map(p => p.id === id ? f(p) : p) } : null
\* of lines 93, 104 and 108, f setting the status and, when given, the result.
WithStatus(prev, id, status, res) ==
    IF prev = Undefined
    THEN Undefined
    ELSE <<[prev[1] EXCEPT !.prompts =
              [k \in 1..Len(prev[1].prompts) |->
                  IF prev[1].prompts[k].id = id
                  THEN IF res = Undefined
                       THEN [prev[1].prompts[k] EXCEPT !.status = status]
                       ELSE [prev[1].prompts[k] EXCEPT !.status = status,
                                                      !.resultUrl = <<res[1].url>>,
                                                      !.caption = res[1].caption]
                  ELSE prev[1].prompts[k]]]>>

\* Lines 89-90: the first captured prompt from index from on that is not
\* blank; 0 when there is none.
NextToProcess(ps, from) ==
    IF \E k \in from..Len(ps) : Trim(ps[k].prompt) # ""
    THEN CHOOSE k \in from..Len(ps) :
             /\ Trim(ps[k].prompt) # ""
             /\ \A j \in from..(k - 1) : Trim(ps[j].prompt) = ""
    ELSE 0

\* Lines 89-98 and 113: the loop from captured prompt from on, up to the next
\* await or to the end of runSheet.
LoopFrom(a, ps, from) ==
    LET k == NextToProcess(ps, from)
    IN IF k = 0
       THEN [active |-> a, pc |-> "none", idx |-> 0, processing |-> FALSE]
       ELSE [active |-> WithStatus(a, ps[k].id, "processing", Undefined),
             pc |-> "awaitGen", idx |-> k, processing |-> TRUE]

\* `Failed to process prompt: "${prompt.prompt}"`
FailedMessage(text) == <<"Failed to process prompt: ", text>>

\* Lines 13-17, 19-41 and 73-82: the view is mounted; loadSheets calls
\* getSheets and the debounce effect sets its first timer.
SheetsMount ==
    /\ svPc = "unmounted"
    /\ svMount < MaxMounts
    /\ svMount' = svMount + 1
    /\ svPc' = "loading"
    /\ sheets' = <<>>
    /\ activeSheet' = Undefined
    /\ sheetsLoading' = TRUE
    /\ isProcessing' = FALSE
    /\ sheetError' = Undefined
    /\ sheetOps' = StartSheetOp(StartSheetOp(sheetOps, "get", svMount', SheetUser, Undefined),
                                "debounce", svMount', SheetUser, Undefined)
    /\ UNCHANGED <<sheetsDb, saveCalls, runPc, runPrompts, runIdx, lastActive, edits, runs>>
    /\ UNCHANGED otherThanSheets

\* App line 42 stops rendering the view: its state is dropped and the
\* effect's cleanup clears the debounce timer. A runSheet still under way
\* goes on without a view to update.
SheetsUnmount ==
    /\ svPc # "unmounted"
    /\ svPc' = "unmounted"
    /\ sheets' = <<>>
    /\ activeSheet' = Undefined
    /\ sheetsLoading' = TRUE
    /\ isProcessing' = FALSE
    /\ sheetError' = Undefined
    /\ runPc' = "none"
    /\ runPrompts' = <<>>
    /\ runIdx' = 0
    /\ sheetOps' = CancelDebounce(sheetOps, svMount)
    /\ UNCHANGED <<sheetsDb, saveCalls, svMount, lastActive, edits, runs>>
    /\ UNCHANGED otherThanSheets

\* Whether the loadSheets call of mount m still has its view.
IsCurrent(m) == svPc # "unmounted" /\ m = svMount

\* store lines 64-70 and view lines 22-38: getSheets' latency ends; the
\* loaded sheets are shown or, when there are none, a default sheet is made,
\* shown and saved.
GetSheetsComplete(i, d) ==
    /\ SheetOpMayFire(i)
    /\ sheetOps[i].kind = "get"
    /\ now + d <= MaxClock \/ d = 0
    /\ LET m == sheetOps[i].mount
           u == sheetOps[i].user
           userSheets == StoredSheets(sheetsDb, u)
           rest == RemoveAt(sheetOps, i)
       IN /\ sheetsDb' = IF u \in DOMAIN sheetsDb THEN sheetsDb ELSE (u :> <<>>) @@ sheetsDb
          /\ IF Len(userSheets) > 0
             THEN /\ UNCHANGED now
                  /\ IF IsCurrent(m)
                     THEN /\ sheets' = userSheets
                          /\ activeSheet' = <<userSheets[1]>>
                          /\ lastActive' = activeSheet'
                          /\ sheetsLoading' = FALSE
                          /\ svPc' = "ready"
                          /\ sheetOps' = Reschedule(rest, m, activeSheet')
                     ELSE /\ sheetOps' = rest
                          /\ UNCHANGED <<sheets, activeSheet, lastActive, sheetsLoading, svPc>>
             ELSE /\ now' = now + d
                  /\ IF IsCurrent(m)
                     THEN /\ sheets' = <<DefaultSheet(now')>>
                          /\ activeSheet' = <<DefaultSheet(now')>>
                          /\ lastActive' = activeSheet'
                          /\ sheetOps' = Reschedule(
                                 StartSheetOp(rest, "saveDefault", m, u, DefaultSheet(now')),
                                 m, activeSheet')
                          /\ UNCHANGED <<sheetsLoading, svPc>>
                     ELSE /\ sheetOps' = StartSheetOp(rest, "saveDefault", m, u,
                                                      DefaultSheet(now'))
                          /\ UNCHANGED <<sheets, activeSheet, lastActive, sheetsLoading, svPc>>
    /\ UNCHANGED <<saveCalls, svMount, isProcessing, sheetError, runPc, runPrompts, runIdx,
                   edits, runs>>
    /\ UNCHANGED otherThanSheetsAndClock

\* store lines 73-83 and view lines 36-38: the save of the default sheet ends
\* and loadSheets sets isLoading to false.
SaveDefaultComplete(i) ==
    /\ SheetOpMayFire(i)
    /\ sheetOps[i].kind = "saveDefault"
    /\ sheetsDb' = Upsert(sheetsDb, sheetOps[i].user, sheetOps[i].sheet)
    /\ sheetOps' = RemoveAt(sheetOps, i)
    /\ IF IsCurrent(sheetOps[i].mount)
       THEN /\ sheetsLoading' = FALSE
            /\ svPc' = "ready"
       ELSE UNCHANGED <<sheetsLoading, svPc>>
    /\ UNCHANGED <<saveCalls, svMount, sheets, activeSheet, isProcessing, sheetError,
                   runPc, runPrompts, runIdx, lastActive, edits, runs>>
    /\ UNCHANGED otherThanSheets

\* Lines 75-77 and 68-71: the debounce timer fires; the sheet its effect
\* captured, when there is one, is passed to saveSheet.
DebounceFire(i) ==
    /\ SheetOpMayFire(i)
    /\ sheetOps[i].kind = "debounce"
    /\ sheetOps' = IF sheetOps[i].sheet = Undefined
                   THEN RemoveAt(sheetOps, i)
                   ELSE StartSheetOp(RemoveAt(sheetOps, i), "save", sheetOps[i].mount,
                                     sheetOps[i].user, sheetOps[i].sheet[1])
    /\ UNCHANGED <<sheetsDb, saveCalls, sheetViewVars>>
    /\ UNCHANGED otherThanSheets

\* The view shows the sheet and its controls (line 126 returns otherwise).
SheetShown == svPc # "unmounted" /\ ~sheetsLoading /\ activeSheet # Undefined

\* Lines 43-49: the user types text into the k-th prompt shown.
HandleUpdatePrompt(k, text) ==
    /\ SheetShown
    /\ edits < MaxEdits
    /\ edits' = edits + 1
    /\ UNCHANGED runs
    /\ k \in 1..Len(activeSheet[1].prompts)
    /\ LET promptId == activeSheet[1].prompts[k].id
           updatedPrompts == [j \in 1..Len(activeSheet[1].prompts) |->
                                 IF activeSheet[1].prompts[j].id = promptId
                                 THEN [activeSheet[1].prompts[j] EXCEPT !.prompt = text]
                                 ELSE activeSheet[1].prompts[j]]
       IN activeSheet' = <<[activeSheet[1] EXCEPT !.prompts = updatedPrompts]>>
    /\ lastActive' = activeSheet'
    /\ sheetOps' = Reschedule(sheetOps, svMount, activeSheet')
    /\ UNCHANGED <<sheetsDb, saveCalls, svPc, svMount, sheets, sheetsLoading,
                   isProcessing, sheetError, runPc, runPrompts, runIdx>>
    /\ UNCHANGED otherThanSheets

\* Lines 51-60: Add Prompt.
HandleAddPrompt(d) ==
    /\ SheetShown
    /\ edits < MaxEdits
    /\ edits' = edits + 1
    /\ UNCHANGED runs
    /\ Len(activeSheet[1].prompts) < MaxPrompts
    /\ now + d <= MaxClock
    /\ now' = now + d
    /\ LET newPrompt == [id |-> <<"prompt-", now'>>, prompt |-> "", status |-> "pending",
                         resultUrl |-> Undefined, caption |-> Undefined]
       IN activeSheet' = <<[activeSheet[1] EXCEPT !.prompts = Append(@, newPrompt)]>>
    /\ lastActive' = activeSheet'
    /\ sheetOps' = Reschedule(sheetOps, svMount, activeSheet')
    /\ UNCHANGED <<sheetsDb, saveCalls, svPc, svMount, sheets, sheetsLoading,
                   isProcessing, sheetError, runPc, runPrompts, runIdx>>
    /\ UNCHANGED otherThanSheetsAndClock

\* Lines 62-66: the trash button of the k-th prompt shown.
HandleRemovePrompt(k) ==
    /\ SheetShown
    /\ edits < MaxEdits
    /\ edits' = edits + 1
    /\ UNCHANGED runs
    /\ k \in 1..Len(activeSheet[1].prompts)
    /\ ~(Len(activeSheet[1].prompts) <= 1)
    /\ LET promptId == activeSheet[1].prompts[k].id
           updatedPrompts == SelectSeq(activeSheet[1].prompts, LAMBDA q : q.id # promptId)
       IN activeSheet' = <<[activeSheet[1] EXCEPT !.prompts = updatedPrompts]>>
    /\ lastActive' = activeSheet'
    /\ sheetOps' = Reschedule(sheetOps, svMount, activeSheet')
    /\ UNCHANGED <<sheetsDb, saveCalls, svPc, svMount, sheets, sheetsLoading,
                   isProcessing, sheetError, runPc, runPrompts, runIdx>>
    /\ UNCHANGED otherThanSheets

\* The state after a piece of runSheet that ends in loop state r.
RunTo(r) ==
    /\ activeSheet' = r.active
    /\ lastActive' = IF r.active = activeSheet THEN lastActive ELSE r.active
    /\ sheetOps' = IF r.active = activeSheet
                   THEN sheetOps
                   ELSE Reschedule(sheetOps, svMount, r.active)
    /\ runPc' = r.pc
    /\ runIdx' = r.idx
    /\ isProcessing' = r.processing

\* Lines 84-98, from the Run Sheet button (line 137) to the first await, or
\* to the end when no prompt is to be processed.
RunSheet ==
    /\ SheetShown
    /\ ~isProcessing
    /\ runs < MaxRuns
    /\ runs' = runs + 1
    /\ UNCHANGED edits
    /\ sheetError' = Undefined
    /\ runPrompts' = activeSheet[1].prompts
    /\ RunTo(LoopFrom(activeSheet, activeSheet[1].prompts, 1))
    /\ UNCHANGED <<sheetsDb, saveCalls, svPc, svMount, sheets, sheetsLoading>>
    /\ UNCHANGED otherThanSheets

\* Lines 105-109 and 113: the catch branch for the prompt being processed.
RunCatch ==
    /\ sheetError' = <<FailedMessage(runPrompts[runIdx].prompt)>>
    /\ RunTo([active |-> WithStatus(activeSheet, runPrompts[runIdx].id, "error", Undefined),
              pc |-> "none", idx |-> 0, processing |-> FALSE])

\* Lines 98-104 and 89-98: the generation call resolves; the prompt is
\* completed and the loop goes on, unless the batch is empty and reading its
\* first result throws.
SheetGenResolve(res) ==
    /\ runPc = "awaitGen"
    /\ IF res = <<>>
       THEN RunCatch
       ELSE /\ RunTo(LoopFrom(WithStatus(activeSheet, runPrompts[runIdx].id,
                                         "completed", res),
                              runPrompts, runIdx + 1))
            /\ UNCHANGED sheetError
    /\ UNCHANGED <<sheetsDb, saveCalls, svPc, svMount, sheets, sheetsLoading, runPrompts,
                   edits, runs>>
    /\ UNCHANGED otherThanSheets

\* Lines 98 and 105-113: the generation call rejects.
SheetGenReject ==
    /\ runPc = "awaitGen"
    /\ RunCatch
    /\ UNCHANGED <<sheetsDb, saveCalls, svPc, svMount, sheets, sheetsLoading, runPrompts,
                   edits, runs>>
    /\ UNCHANGED otherThanSheets

\* ------------------------------------------------------ specifications

VideoSteps ==
    \/ \E p \in Prompts, u \in UserIds : StartVideo(p, u)
    \/ \E h \in Handles : VideoSubmitResolve(h)
    \/ \E e \in ProviderErrors : VideoSubmitReject(e)
    \/ PollTimer
    \/ \E h \in Handles : VideoRefreshResolve(h)
    \/ \E e \in ProviderErrors : VideoRefreshReject(e)
    \/ VideoFetchResolve
    \/ \E e \in ProviderErrors : VideoFetchReject(e)
    \/ \E b \in Blobs : VideoBlobResolve(b)
    \/ \E e \in ProviderErrors : VideoBlobReject(e)
    \/ \E t \in CaptionTexts : VideoCaptionResolve(t)
    \/ \E e \in ProviderErrors : VideoCaptionReject(e)

ImageSteps ==
    \/ \E p \in Prompts, n \in 1..MaxImages, u \in UserIds : StartImages(p, n, u)
    \/ \E e \in ProviderErrors : ImagesReject(e)
    \/ \E resp \in ImageResponses(MaxImages) : ImagesResolve(resp)
    \/ \E i \in 1..MaxImages, t \in CaptionTexts : ImageCaptionResolve(i, t)
    \/ \E i \in 1..MaxImages, e \in ProviderErrors : ImageCaptionReject(i, e)

RecorderSteps ==
    \/ AppendComplete
    \/ AppendFail

VideoNext == VideoSteps \/ RecorderSteps

ImageNext == ImageSteps \/ RecorderSteps

Next == VideoSteps \/ ImageSteps \/ RecorderSteps

\* One generateVideoAndCaption invocation and the recorder.
SpecVideo == Init /\ [][VideoNext]_vars

\* One generateImagesAndCaptions invocation and the recorder.
SpecImage == Init /\ [][ImageNext]_vars

\* One invocation of either entry point and the recorder.
Spec == Init /\ [][Next]_vars

\* Every provider call of the video invocation is answered.
ProviderAnswers ==
    \/ \E h \in Handles : VideoSubmitResolve(h)
    \/ \E e \in ProviderErrors : VideoSubmitReject(e)
    \/ \E h \in Handles : VideoRefreshResolve(h)
    \/ \E e \in ProviderErrors : VideoRefreshReject(e)
    \/ VideoFetchResolve
    \/ \E e \in ProviderErrors : VideoFetchReject(e)
    \/ \E b \in Blobs : VideoBlobResolve(b)
    \/ \E e \in ProviderErrors : VideoBlobReject(e)
    \/ \E t \in CaptionTexts : VideoCaptionResolve(t)
    \/ \E e \in ProviderErrors : VideoCaptionReject(e)

\* SpecVideo with a timer that fires and a provider that answers every call
\* and reports completion within MaxPolls refreshes.
SpecVideoFair ==
    /\ Init
    /\ [][VideoNext]_vars
    /\ WF_vars(PollTimer)
    /\ WF_vars(ProviderAnswers)

ForwardSteps == \E u \in HistoryUsers, item \in ForwardedItems : ForwardResult(u, item)

HistoryNext == ForwardSteps \/ RecorderSteps

\* The recorder under the forwards of several concurrent invocations.
SpecHistory == Init /\ [][HistoryNext]_vars

ChatNext ==
    \/ \E u \in UserIds : ChatMount(u)
    \/ \E i \in 1..MaxChatOps : GetChatHistoryComplete(i)
    \/ \E text \in ChatInputs, d \in 0..MaxTick : HandleSubmit(text, d)
    \/ \E d \in 0..MaxTick : ChatStreamResolve(d)
    \/ \E c \in ChunkTexts : ChatStreamChunk(c)
    \/ ChatStreamEnd
    \/ \E d \in 0..MaxTick : ChatStreamReject(d)
    \/ \E i \in 1..MaxChatOps : SaveChatHistoryComplete(i)
    \/ HandleNewChat
    \/ \E i \in 1..MaxChatOps : ClearChatHistoryComplete(i)

\* One ChatView, its user and the store's chat collection.
SpecChat == Init /\ [][ChatNext]_vars

SaveSheetNext ==
    \/ \E u \in HistoryUsers, sheet \in SavedSheets : CallSaveSheet(u, sheet)
    \/ \E i \in 1..MaxSaveCalls : SaveSheetComplete(i)

\* The sheet store under saveSheet calls of any callers.
SpecSaveSheet == Init /\ [][SaveSheetNext]_vars

SheetsNext ==
    \/ SheetsMount
    \/ SheetsUnmount
    \/ \E i \in 1..(2 * MaxMounts + 2), d \in 0..MaxTick : GetSheetsComplete(i, d)
    \/ \E i \in 1..(2 * MaxMounts + 2) : SaveDefaultComplete(i)
    \/ \E i \in 1..(2 * MaxMounts + 2) : DebounceFire(i)
    \/ \E i \in 1..(2 * MaxMounts + 2) : SaveSheetComplete(i)
    \/ \E k \in 1..MaxPrompts, text \in SheetTexts : HandleUpdatePrompt(k, text)
    \/ \E d \in 0..MaxTick : HandleAddPrompt(d)
    \/ \E k \in 1..MaxPrompts : HandleRemovePrompt(k)
    \/ RunSheet
    \/ \E res \in SheetGenResults : SheetGenResolve(res)
    \/ SheetGenReject

\* One user's sheets view, mounted and unmounted, and the sheet store.
SpecSheets == Init /\ [][SheetsNext]_vars

\* The timers of the sheet store and of the view fire.
SheetTimers ==
    \/ \E i \in 1..(2 * MaxMounts + 2), d \in 0..MaxTick : GetSheetsComplete(i, d)
    \/ \E i \in 1..(2 * MaxMounts + 2) : SaveDefaultComplete(i)
    \/ \E i \in 1..(2 * MaxMounts + 2) : DebounceFire(i)
    \/ \E i \in 1..(2 * MaxMounts + 2) : SaveSheetComplete(i)

\* SpecSheets with timers that fire.
SpecSheetsFair ==
    /\ Init
    /\ [][SheetsNext]_vars
    /\ WF_vars(SheetTimers)

\* ------------------------------------------------------ the history view

\* The one signed-in user whose history the view shows.
HistoryViewUser == "mock-user-123"

MsgLoadFailed == "Failed to load history."
MsgDeleteFailed == "Could not delete item. Please try again."

\* The items of list stamped t, then those stamped earlier, newest first; items
\* of one stamp keep their order, as Array.prototype.sort is stable.
RECURSIVE StampedDownFrom(_, _)
StampedDownFrom(list, t) ==
    IF t < 0 THEN <<>>
    ELSE SelectSeq(list, LAMBDA x : x.timestamp = t) \o StampedDownFrom(list, t - 1)

\* [...list].sort((a, b) => b.timestamp - a.timestamp)
SortNewestFirst(list) == StampedDownFrom(list, MaxClock + 1)

\* list.filter(item => item.id !== itemId)
WithoutItem(list, itemId) == SelectSeq(list, LAMBDA x : x.id # itemId)

IdsOf(list) == {list[k].id : k \in 1..Len(list)}

\* Date.now() moves on.
ClockTick ==
    /\ now < MaxClock
    /\ now' = now + 1
    /\ UNCHANGED <<progVars, recVars, histVars, chatState, sheetVars, historyViewVars,
                   authVars, genViewVars>>

\* The view is rendered for the user: its state is initial and the fetch
\* effect calls getHistory.
HistoryMount ==
    /\ hvPc = "unmounted"
    /\ hvMount < MaxMounts
    /\ hvMount' = hvMount + 1
    /\ hvPc' = "loading"
    /\ hvHistory' = <<>>
    /\ hvLoading' = TRUE
    /\ hvError' = Undefined
    /\ hvLoaded' = {}
    /\ hvOps' = Append(hvOps, [kind |-> "get", mount |-> hvMount', itemId |-> 0,
                               originalHistory |-> <<>>])
    /\ UNCHANGED deletes
    /\ UNCHANGED otherThanHistoryView

\* Another tab is chosen: the view's state is dropped, its requests go on.
HistoryUnmount ==
    /\ hvPc # "unmounted"
    /\ hvPc' = "unmounted"
    /\ hvHistory' = <<>>
    /\ hvLoading' = TRUE
    /\ hvError' = Undefined
    /\ hvLoaded' = {}
    /\ UNCHANGED <<hvMount, hvOps, deletes>>
    /\ UNCHANGED otherThanHistoryView

\* The request whose latency ends next: all have the same delay, so the
\* earliest one started.
HvOpIsCurrent == hvPc # "unmounted" /\ hvOps[1].mount = hvMount

\* getHistory's timer fires and the fetch continues past its await.
GetHistoryComplete ==
    /\ hvOps # <<>>
    /\ hvOps[1].kind = "get"
    /\ LET list == IF HistoryViewUser \in DOMAIN history
                   THEN history[HistoryViewUser] ELSE <<>>
       IN /\ history' = (HistoryViewUser :> list) @@ history
          /\ IF HvOpIsCurrent
             THEN /\ hvHistory' = SortNewestFirst(list)
                  /\ hvLoaded' = IdsOf(list)
                  /\ hvLoading' = FALSE
                  /\ hvPc' = "ready"
             ELSE UNCHANGED <<hvHistory, hvLoaded, hvLoading, hvPc>>
    /\ hvOps' = Tail(hvOps)
    /\ UNCHANGED <<hvMount, hvError, deletes>>
    /\ UNCHANGED <<appends, nextId, recorderFails>>
    /\ UNCHANGED <<progVars, histVars, chatVars, sheetVars, authVars, genViewVars>>

\* A store that rejects the read: the catch and the finally of the fetch.
GetHistoryReject ==
    /\ hvOps # <<>>
    /\ hvOps[1].kind = "get"
    /\ IF HvOpIsCurrent
       THEN /\ hvError' = <<MsgLoadFailed>>
            /\ hvLoading' = FALSE
            /\ hvPc' = "ready"
       ELSE UNCHANGED <<hvError, hvLoading, hvPc>>
    /\ hvOps' = Tail(hvOps)
    /\ UNCHANGED <<hvMount, hvHistory, hvLoaded, deletes>>
    /\ UNCHANGED otherThanHistoryView

\* handleDelete(itemId) up to its await: the list of this render is kept, the
\* item leaves the list shown, and deleteFromHistory is called. The delete
\* buttons are rendered with the items, once loading has ended.
HandleDelete(k) ==
    /\ hvPc = "ready"
    /\ deletes < MaxDeletes
    /\ k \in 1..Len(hvHistory)
    /\ hvHistory' = WithoutItem(hvHistory, hvHistory[k].id)
    /\ hvOps' = Append(hvOps, [kind |-> "delete", mount |-> hvMount,
                               itemId |-> hvHistory[k].id,
                               originalHistory |-> hvHistory])
    /\ deletes' = deletes + 1
    /\ UNCHANGED <<hvPc, hvMount, hvLoading, hvError, hvLoaded>>
    /\ UNCHANGED otherThanHistoryView

\* deleteFromHistory's timer fires: the item leaves the user's stored list, and
\* handleDelete returns.
DeleteResolve ==
    /\ hvOps # <<>>
    /\ hvOps[1].kind = "delete"
    /\ history' = IF HistoryViewUser \in DOMAIN history
                  THEN [history EXCEPT ![HistoryViewUser] =
                            WithoutItem(@, hvOps[1].itemId)]
                  ELSE history
    /\ hvOps' = Tail(hvOps)
    /\ UNCHANGED <<hvPc, hvMount, hvHistory, hvLoading, hvError, hvLoaded, deletes>>
    /\ UNCHANGED <<appends, nextId, recorderFails>>
    /\ UNCHANGED <<progVars, histVars, chatVars, sheetVars, authVars, genViewVars>>

\* A store that rejects the delete: the catch of handleDelete puts the kept
\* list back and sets the error.
DeleteReject ==
    /\ hvOps # <<>>
    /\ hvOps[1].kind = "delete"
    /\ IF HvOpIsCurrent
       THEN /\ hvHistory' = hvOps[1].originalHistory
            /\ hvError' = <<MsgDeleteFailed>>
       ELSE UNCHANGED <<hvHistory, hvError>>
    /\ hvOps' = Tail(hvOps)
    /\ UNCHANGED <<hvPc, hvMount, hvLoading, hvLoaded, deletes>>
    /\ UNCHANGED otherThanHistoryView

HistoryViewNext ==
    \/ \E item \in ForwardedItems : ForwardResult(HistoryViewUser, item)
    \/ RecorderSteps
    \/ ClockTick
    \/ HistoryMount
    \/ HistoryUnmount
    \/ GetHistoryComplete
    \/ GetHistoryReject
    \/ \E k \in 1..MaxForwards : HandleDelete(k)
    \/ DeleteResolve
    \/ DeleteReject

\* One user's history view, mounted and unmounted, over a store that
\* generations write to.
SpecHistoryView == Init /\ [][HistoryViewNext]_vars

\* ------------------------------------------------------ the auth service

\* const mockUser, by its uid.
MockUser == <<"mock-user-123">>

\* callback(value) of subscription s: one more call, value being the last one;
\* initial says whether this is the notification of the initial state.
Deliver(ss, s, value, initial) ==
    [ss EXCEPT ![s] = [@ EXCEPT !.calls = @ + 1, !.last = value,
                                !.notified = @ \/ initial]]

\* authStateChangeCallback(value), if a callback is registered.
Notify(ss, value) ==
    IF authStateChangeCallback # 0
    THEN Deliver(ss, authStateChangeCallback, value, FALSE)
    ELSE ss

\* onAuthStateChanged(callback), with a callback of its own: the callback is
\* registered, and receives the current user at once if the service is
\* initialized, by a timer of 50 ms otherwise.
OnAuthStateChanged ==
    /\ Len(subs) < MaxSubs
    /\ LET s == Len(subs) + 1
           new == [timer |-> ~isInitialized, unsubscribed |-> FALSE, calls |-> 0,
                   last |-> Undefined, notified |-> FALSE]
       IN /\ authStateChangeCallback' = s
          /\ subs' = IF isInitialized
                     THEN Deliver(Append(subs, new), s, currentUser, TRUE)
                     ELSE Append(subs, new)
    /\ UNCHANGED <<currentUser, isInitialized, logins, logouts>>
    /\ UNCHANGED otherThanAuth

\* The function onAuthStateChanged returned to subscription s is called.
Unsubscribe(s) ==
    /\ s \in 1..Len(subs)
    /\ ~subs[s].unsubscribed
    /\ authStateChangeCallback' = 0
    /\ subs' = [subs EXCEPT ![s].unsubscribed = TRUE]
    /\ UNCHANGED <<currentUser, isInitialized, logins, logouts>>
    /\ UNCHANGED otherThanAuth

\* Timers of equal delay fire in the order they were set.
InitialTimerNext(s) ==
    /\ s \in 1..Len(subs)
    /\ subs[s].timer
    /\ \A r \in 1..(s - 1) : ~subs[r].timer

\* The 50 ms timer of subscription s fires.
InitialTimerFire(s) ==
    /\ InitialTimerNext(s)
    /\ subs' = [Deliver(subs, s, currentUser, TRUE) EXCEPT ![s].timer = FALSE]
    /\ isInitialized' = TRUE
    /\ UNCHANGED <<authStateChangeCallback, currentUser, logins, logouts>>
    /\ UNCHANGED otherThanAuth

\* Variant of Login: a user already signed in is signed in again.
LoginAgain ==
    /\ logins < MaxLogins
    /\ logins' = logins + 1
    /\ currentUser' = MockUser
    /\ subs' = Notify(subs, MockUser)
    /\ UNCHANGED <<authStateChangeCallback, isInitialized, logouts>>
    /\ UNCHANGED otherThanAuth

\* login()
Login ==
    /\ logins < MaxLogins
    /\ logins' = logins + 1
    /\ IF currentUser # Undefined
       THEN UNCHANGED <<currentUser, subs>>
       ELSE /\ currentUser' = MockUser
            /\ subs' = Notify(subs, MockUser)
    /\ UNCHANGED <<authStateChangeCallback, isInitialized, logouts>>
    /\ UNCHANGED otherThanAuth

\* logout()
Logout ==
    /\ logouts < MaxLogouts
    /\ logouts' = logouts + 1
    /\ currentUser' = Undefined
    /\ subs' = Notify(subs, Undefined)
    /\ UNCHANGED <<authStateChangeCallback, isInitialized, logins>>
    /\ UNCHANGED otherThanAuth

AuthNext ==
    \/ OnAuthStateChanged
    \/ \E s \in 1..MaxSubs : Unsubscribe(s)
    \/ \E s \in 1..MaxSubs : InitialTimerFire(s)
    \/ Login
    \/ Logout

\* The auth service under any order of subscribing, unsubscribing, login,
\* logout and the initial timers.
SpecAuth == Init /\ [][AuthNext]_vars

\* ------------------------------------------------------ the generator views

GeneratorViews == {"image", "video"}

\* useState(...) of prompt, in each view.
DefaultPrompt(v) ==
    IF v = "image"
    THEN "A hyper-realistic photo of a baby panda trying to solve a Rubik's cube"
    ELSE "A dramatic time-lapse of a flower blooming in vibrant, neon colors"

\* What the user leaves in the prompt field: blanks, or a prompt.
GenPrompts == {"  ", "a red bicycle"}

MsgEnterPrompt == "Please enter a prompt."

MsgGenerateFailed(v) ==
    IF v = "image"
    THEN "Failed to generate images. Please check your API key and network connection."
    ELSE "Failed to generate video. Please check your API key and network connection."

\* State loadingMessage of the video view: the argument of the latest
\* setLoadingMessage call of this mount, made by handleProgress for every
\* onProgress call of the generation it started or by the finally of
\* handleGenerate; the empty string of useState before any.
LoadingMessage ==
    IF gvCaller /\ Len(progress) > gvResetAt THEN progress[Len(progress)] ELSE ""

\* The tab of a generator view is chosen: the view is rendered in its
\* initial state.
GenMount(v) ==
    /\ gvView = "none"
    /\ gvMount < MaxMounts
    /\ gvMount' = gvMount + 1
    /\ gvView' = v
    /\ gvPrompt' = DefaultPrompt(v)
    /\ gvLoading' = FALSE
    /\ gvError' = Undefined
    /\ gvResult' = Undefined
    /\ gvResetAt' = 0
    /\ gvPhase' = "idle"
    /\ gvCaller' = FALSE
    /\ UNCHANGED <<progVars, recVars, histVars, otherViews>>

\* Another tab is chosen: the view's state is dropped; a generation it
\* started goes on.
GenUnmount ==
    /\ gvView # "none"
    /\ gvView' = "none"
    /\ gvPrompt' = ""
    /\ gvLoading' = FALSE
    /\ gvError' = Undefined
    /\ gvResult' = Undefined
    /\ gvResetAt' = 0
    /\ gvPhase' = "idle"
    /\ gvCaller' = FALSE
    /\ UNCHANGED gvMount
    /\ UNCHANGED <<progVars, recVars, histVars, otherViews>>

\* The user edits the prompt field.
SetPrompt(p) ==
    /\ gvView # "none"
    /\ gvPrompt # p
    /\ gvPrompt' = p
    /\ UNCHANGED <<gvView, gvMount, gvLoading, gvError, gvResult, gvResetAt, gvPhase,
                   gvCaller>>
    /\ UNCHANGED <<progVars, recVars, histVars, otherViews>>

\* handleGenerate with a blank prompt; the button is disabled while isLoading.
HandleGenerateBlank ==
    /\ gvView # "none"
    /\ ~gvLoading
    /\ Trim(gvPrompt) = ""
    /\ gvError' = <<MsgEnterPrompt>>
    /\ gvPhase' = "blank"
    /\ UNCHANGED <<gvView, gvMount, gvPrompt, gvLoading, gvResult, gvResetAt, gvCaller>>
    /\ UNCHANGED <<progVars, recVars, histVars, otherViews>>

\* handleGenerate up to its await, with state variations n (image view) and
\* user?.uid u.
HandleGenerate(n, u) ==
    /\ gvView # "none"
    /\ ~gvLoading
    /\ Trim(gvPrompt) # ""
    /\ gvLoading' = TRUE
    /\ gvError' = Undefined
    /\ gvResult' = Undefined
    /\ gvPhase' = "awaiting"
    /\ gvCaller' = TRUE
    /\ IF gvView = "image"
       THEN StartImagesCall(gvPrompt, n, u)
       ELSE StartVideoCall(gvPrompt, u)
    /\ UNCHANGED <<gvView, gvMount, gvPrompt, gvResetAt>>

\* handleGenerate after its await, in the view that is still rendered: the
\* try or the catch, then the finally.
GenerateSettled ==
    /\ gvCaller
    /\ gvPhase = "awaiting"
    /\ settled # "pending"
    /\ IF settled = "resolved"
       THEN /\ gvResult' = IF gvView = "image" THEN result[2] ELSE <<result[2]>>
            /\ UNCHANGED gvError
       ELSE /\ gvError' = <<MsgGenerateFailed(gvView)>>
            /\ UNCHANGED gvResult
    /\ gvLoading' = FALSE
    /\ gvResetAt' = Len(progress)
    /\ gvPhase' = "settled"
    /\ UNCHANGED <<gvView, gvMount, gvPrompt, gvCaller>>
    /\ UNCHANGED <<progVars, recVars, histVars, otherViews>>

GenViewNext ==
    \/ \E v \in GeneratorViews : GenMount(v)
    \/ GenUnmount
    \/ \E p \in GenPrompts : SetPrompt(p)
    \/ HandleGenerateBlank
    \/ \E n \in 1..MaxImages, u \in UserIds : HandleGenerate(n, u)
    \/ GenerateSettled
    \/ VideoSteps
    \/ ImageSteps

\* The generator views, rendered one at a time, and the generation calls.
SpecGenViews == Init /\ [][GenViewNext]_vars

\* ------------------------------------------------- the video poll loop

LoopLeft == loopExitAt # -1

\* C1: a status refresh is issued only for a handle whose done flag is false,
\* and once the provider has returned a done handle (to the submission or to
\* a refresh) no further refresh is issued.
C1_RefreshOnlyWhileNotDone ==
    [][calls'.refresh # calls.refresh =>
          /\ calls'.refresh = calls.refresh + 1
          /\ refreshArg' \in PendingHandles
          /\ lastReturned \in PendingHandles]_vars

C1_Witness ==
    /\ pc = "done"
    /\ calls.refresh >= 2
    /\ lastReturned.done

\* C2: the handle passed to a refresh is the handle the provider returned
\* last: the submission's for the first refresh, the previous refresh's for
\* every later one.
C2_HandleThreaded ==
    calls.refresh > 0 =>
        /\ refreshArg \in Handles
        /\ pc = "awaitRefresh" =>
              /\ refreshArg = lastReturned
              /\ lastFrom = (IF calls.refresh = 1 THEN "submit" ELSE "refresh")

C2_Witness ==
    /\ pc = "awaitRefresh"
    /\ calls.refresh = 3
    /\ refreshArg.token = "op-b"

\* C3 as stated: the loop is left only after a refresh has returned a done
\* handle, and it is left whenever a refresh returns one.
C3_LeftOnlyAfterDoneRefresh ==
    /\ LoopLeft => (lastFrom = "refresh" /\ lastReturned.done)
    /\ (lastFrom = "refresh" /\ lastReturned.done) => LoopLeft

\* C3 amended: the loop is left for the fetching phase exactly when the
\* handle obtained last, from the submission or from a refresh, is done; a
\* done submission leaves it with no refresh.  The loop ends otherwise only
\* by a refresh that rejects.
C3_LeftIffLastHandleDone ==
    /\ LoopLeft <=> (lastFrom \in {"submit", "refresh"} /\ lastReturned.done)
    /\ (LoopLeft /\ lastFrom = "submit") => calls.refresh = 0
    /\ (pc = "failed" /\ ~LoopLeft) => raised.at \in {"submit", "refresh"}
    /\ (lastFrom = "refresh" /\ ~LoopLeft) =>
           pc \in {"sleeping", "awaitRefresh", "failed"}

C3_Witness ==
    /\ LoopLeft
    /\ lastFrom = "submit"
    /\ calls.refresh = 0
    /\ pc = "awaitFetch"

\* C4: when the k-th refresh (k >= 1) is the first to return a done handle,
\* there are exactly k refresh calls and exactly k poll messages between the
\* two submission messages and the fetching message, the i-th (from 0) being
\* entry i mod 5 of the list.
C4_PollMessagesCycle ==
    (LoopLeft /\ lastFrom = "refresh") =>
        /\ calls.refresh >= 1
        /\ messageIndex = calls.refresh
        /\ loopExitAt = 2 + calls.refresh
        /\ progress[loopExitAt + 1] = MsgFetching
        /\ \A i \in 0..(calls.refresh - 1) :
               progress[3 + i] = progressMessages[(i % 5) + 1]

C4_Witness ==
    /\ LoopLeft
    /\ lastFrom = "refresh"
    /\ calls.refresh > 5

\* C5: at least two onProgress calls, the submission messages, come before
\* the first refresh; at least one comes once the fetching phase has begun
\* (the fetching message, emitted on leaving the loop), and a call that
\* resolves has made further ones after the fetch was issued.
C5_ProgressAroundPolling ==
    /\ (kind = "video" /\ calls.submit > 0) => Len(progress) >= 2
    /\ calls.refresh > 0 =>
           /\ firstRefreshAt >= 2
           /\ progress[1] = MsgCrafting
           /\ progress[2] = MsgSending
    /\ LoopLeft =>
           /\ Len(progress) > loopExitAt
           /\ progress[loopExitAt + 1] = MsgFetching
    /\ (kind = "video" /\ settled = "resolved") =>
           /\ LoopLeft
           /\ Len(progress) > loopExitAt + 1

C5_Witness ==
    /\ calls.refresh > 0
    /\ LoopLeft
    /\ raised.at = "fetch"

\* C6: once the returned promise has settled it stays as it is, and no
\* onProgress call follows.
C6_NoProgressAfterSettle ==
    [][settled # "pending" =>
          /\ progress' = progress
          /\ settled' = settled
          /\ result' = result]_vars

C6_Witness ==
    /\ settled = "resolved"
    /\ progress[Len(progress)] = MsgDone
    /\ Len(appends) = 1
    /\ appends[1].st = "stored"

\* C7: when the job submission rejects, the call rejects with that very
\* error, the submission message has been emitted, and no refresh, fetch,
\* caption request or history append is made.
C7_SubmitRejects ==
    raised.at = "submit" =>
        /\ settled = "rejected"
        /\ result = Rejected(raised.err)
        /\ Len(progress) >= 1
        /\ progress[Len(progress)] = MsgSending
        /\ calls.refresh = 0
        /\ calls.fetch = 0
        /\ calls.caption = 0
        /\ appends = <<>>
        /\ history = <<>>

C7_Witness ==
    /\ raised.at = "submit"
    /\ raised.err = "ApiError: quota"
    /\ userId # Undefined

\* C8: when the finished job carries no result link, the call rejects with
\* the missing-result error and makes no fetch, no caption request, no
\* history append and no further refresh.
C8_MissingLink ==
    (LoopLeft /\ lastReturned.uri \in {Undefined, <<"">>}) =>
        /\ settled = "rejected"
        /\ result = Rejected(MissingResult)
        /\ pc = "failed"
        /\ fetchUrl = Undefined
        /\ calls.fetch = 0
        /\ calls.caption = 0
        /\ calls.refresh = messageIndex
        /\ appends = <<>>

C8_Witness ==
    /\ LoopLeft
    /\ lastReturned.uri = Undefined
    /\ calls.refresh >= 1
    /\ userId # Undefined

\* ------------------------------------------- the recorder and the result

\* What the provider's answers alone make of the call: its rejection, its
\* value, or nothing yet.
ProviderOutcome ==
    IF raised.at # "none" THEN Rejected(raised.err)
    ELSE IF kind = "video" /\ answers.got
    THEN Resolved([url |-> ObjectUrl(answers.blob[1]), caption |-> answers.caption])
    ELSE IF kind = "image" /\ pc \notin {"idle", "awaitImages"} /\ AllResolved(branches)
    THEN Resolved([i \in 1..Len(branches) |->
                      [url |-> DataUrl(branches[i].img[1]), caption |-> branches[i].text]])
    ELSE NoResult

\* C9: the outcome of the image call and of the video call is decided by the
\* provider's answers alone, whether the recorder stores or fails, and the
\* call settles as soon as they decide it, whatever the appends are doing.
C9_RecorderNeverDecides ==
    /\ result = ProviderOutcome
    /\ settled = (IF result = NoResult THEN "pending"
                  ELSE IF result[1] = "value" THEN "resolved" ELSE "rejected")

C9_Witness ==
    /\ recorderFails
    /\ settled = "resolved"
    /\ Len(appends) >= 2
    /\ appends[1].st = "failed"
    /\ appends[2].st = "sleeping"

\* C10: a resolved image call for N variations has exactly N results, each
\* with a non-empty locator and a non-empty caption.
C10_ExactlyNResults ==
    (kind = "image" /\ settled = "resolved") =>
        /\ Len(result[2]) = variations
        /\ \A i \in 1..Len(result[2]) :
               /\ StrLen(result[2][i].url) > 0
               /\ result[2][i].caption # Undefined
               /\ Len(result[2][i].caption[1]) > 0

\* ------------------------------------------------ phases and failures

\* The phase an await belongs to: Submitting 1, Polling 2, Fetching 3,
\* Captioning 4, Done 5, Failed 6.
PhaseOf(p) ==
    CASE p = "idle" -> 0
      [] p = "awaitSubmit" -> 1
      [] p \in {"sleeping", "awaitRefresh"} -> 2
      [] p \in {"awaitFetch", "awaitBlob"} -> 3
      [] p = "awaitCaption" -> 4
      [] p = "done" -> 5
      [] OTHER -> 6

TotalCalls(c) == c.submit + c.refresh + c.fetch + c.caption

\* C11: a video invocation never goes back to an earlier phase; a step
\* issues at most one provider call and then awaits that call alone; the
\* calls are one submission, then refreshes, then one fetch, then one caption
\* request; and the message of a phase has been emitted when its call is
\* issued.
C11_PhasesInOrder ==
    [][kind' = "video" =>
          /\ PhaseOf(pc') >= PhaseOf(pc)
          /\ pc \in {"done", "failed"} => pc' = pc
          /\ calls'.submit >= calls.submit /\ calls'.submit <= 1
          /\ calls'.refresh >= calls.refresh
          /\ calls'.fetch >= calls.fetch /\ calls'.fetch <= 1
          /\ calls'.caption >= calls.caption /\ calls'.caption <= 1
          /\ TotalCalls(calls') - TotalCalls(calls) \in {0, 1}
          /\ calls'.submit > calls.submit =>
                 /\ TotalCalls(calls) = 0
                 /\ pc' = "awaitSubmit"
                 /\ calls'.at.submit >= 1
                 /\ progress'[calls'.at.submit] = MsgSending
          /\ calls'.refresh > calls.refresh =>
                 /\ calls.submit = 1 /\ calls.fetch = 0 /\ calls.caption = 0
                 /\ pc = "sleeping" /\ pc' = "awaitRefresh"
                 /\ calls'.at.refresh >= 1
                 /\ progress'[calls'.at.refresh] =
                        progressMessages[((calls'.refresh - 1) % 5) + 1]
          /\ calls'.fetch > calls.fetch =>
                 /\ calls.submit = 1 /\ calls.caption = 0
                 /\ pc \in {"awaitSubmit", "awaitRefresh"} /\ pc' = "awaitFetch"
                 /\ calls'.at.fetch >= 1
                 /\ progress'[calls'.at.fetch] = MsgFetching
          /\ calls'.caption > calls.caption =>
                 /\ calls.fetch = 1
                 /\ pc = "awaitBlob" /\ pc' = "awaitCaption"
                 /\ calls'.at.caption >= 1
                 /\ progress'[calls'.at.caption] = MsgCaption]_vars

C11_Witness ==
    /\ kind = "video"
    /\ pc = "done"
    /\ calls.refresh >= 2
    /\ calls.fetch = 1
    /\ calls.caption = 1

ProviderFailures == {"submit", "refresh", "fetch", "blob", "caption"}

\* C12: once a provider call of a video invocation has failed, the
\* invocation is rejected with that error and issues no provider call again.
C12_FailureIsFatal ==
    [][raised'.at \in ProviderFailures =>
          /\ settled' = "rejected"
          /\ result' = Rejected(raised'.err)
          /\ pc' = "failed"
          /\ raised.at \in ProviderFailures => (calls' = calls /\ raised' = raised)]_vars

C12_Witness ==
    /\ kind = "video"
    /\ raised.at = "caption"
    /\ calls.refresh >= 1
    /\ settled = "rejected"

\* C13: a video invocation that resolves yields one {url, caption} record
\* and has started exactly one history append, of type video and with the
\* caller's prompt, when a user id was given and none otherwise; one that has
\* not resolved has started none.
C13_OneArtifactOneAppend ==
    kind = "video" =>
        /\ settled = "resolved" =>
               /\ DOMAIN result[2] = {"url", "caption"}
               /\ userId = Undefined => appends = <<>>
               /\ userId # Undefined =>
                      /\ Len(appends) = 1
                      /\ appends[1].user = userId[1]
                      /\ appends[1].item =
                             [url |-> result[2].url, caption |-> result[2].caption,
                              prompt |-> prompt, type |-> "video"]
        /\ settled # "resolved" => appends = <<>>

C13_Witness ==
    /\ kind = "video"
    /\ settled = "resolved"
    /\ userId # Undefined
    /\ Len(appends) = 1
    /\ appends[1].st = "stored"

\* C14: when the image batch submission fails, the call rejects with that
\* failure; no caption request is issued and nothing is appended to history.
C14_BatchFailureAborts ==
    raised.at = "images" =>
        /\ settled = "rejected"
        /\ result = Rejected(raised.err)
        /\ branches = <<>>
        /\ calls.caption = 0
        /\ appends = <<>>
        /\ history = <<>>

C14_Witness ==
    /\ raised.at = "images"
    /\ raised.err = "TypeError: Failed to fetch"
    /\ userId # Undefined

\* ------------------------------------------------ the image branches

ResolvedBranches(bs) == {i \in 1..Len(bs) : bs[i].st = "resolved"}

\* C15: when a caption request of an image call fails the call is rejected,
\* yet every other branch still waiting for its caption can receive it, and
\* each branch whose caption arrived has started its history append when a
\* user id was given, whether or not the call was rejected.
C15_OnlyFailedBranchAborted ==
    kind = "image" =>
        /\ (\E i \in 1..Len(branches) : branches[i].st = "rejected") =>
               (settled = "rejected" /\ pc = "failed")
        /\ \A j \in 1..Len(branches) :
               branches[j].st = "awaitCaption" =>
                   \A t \in CaptionTexts : ENABLED ImageCaptionResolve(j, t)
        /\ Len(appends) = IF Truthy(userId)
                          THEN Cardinality(ResolvedBranches(branches))
                          ELSE 0

C15_Witness ==
    /\ kind = "image"
    /\ settled = "rejected"
    /\ raised.at = "caption"
    /\ Len(branches) = 2
    /\ branches[1].st = "rejected"
    /\ branches[2].st = "resolved"
    /\ Len(appends) = 1
    /\ appends[1].st = "stored"
    /\ userId # Undefined /\ userId[1] \in DOMAIN history

\* C16: the results of a resolved image call are in the provider's image
\* order: entry i has the locator of the provider's i-th image and the
\* caption answered to that image's own request.
C16_ResultInProviderOrder ==
    (kind = "image" /\ settled = "resolved") =>
        /\ Len(result[2]) = Len(branches)
        /\ \A i \in 1..Len(branches) :
               /\ result[2][i].url = DataUrl(branches[i].img[1])
               /\ result[2][i].caption = branches[i].text

\* The second image's caption arrived first (its append was started first),
\* and the two results differ.
C16_Witness ==
    /\ kind = "image"
    /\ settled = "resolved"
    /\ Len(result[2]) = 2
    /\ result[2][1].url # result[2][2].url
    /\ result[2][1].caption # result[2][2].caption
    /\ Len(appends) = 2
    /\ appends[1].item.url = result[2][2].url
    /\ appends[1].item.caption = result[2][2].caption

\* C17: in an image call, the step in which the caption of image i arrives
\* starts the append of exactly that image's result when a user id was given,
\* and no other step of the call starts an append; without a user id none is
\* started.
C17_AppendAtOwnCaption ==
    [][kind = "image" =>
          /\ \A i \in 1..Len(branches) :
                 (branches[i].st = "awaitCaption" /\ branches'[i].st = "resolved") =>
                     appends' = IF Truthy(userId)
                                THEN Append(appends,
                                         [user |-> userId[1],
                                          item |-> [url |-> branches[i].url[1],
                                                    caption |-> branches'[i].caption,
                                                    prompt |-> prompt, type |-> "image"],
                                          st |-> "sleeping"])
                                ELSE appends
          /\ Len(appends') > Len(appends) =>
                 \E i \in 1..Len(branches) :
                     branches[i].st = "awaitCaption" /\ branches'[i].st = "resolved"
          /\ ~Truthy(userId) => appends' = <<>>]_vars

\* The second image's append has been started while the first image still
\* waits for its caption and the call has not returned.
C17_Witness ==
    /\ kind = "image"
    /\ pc = "awaitCaptions"
    /\ settled = "pending"
    /\ Len(branches) = 2
    /\ branches[1].st = "awaitCaption"
    /\ branches[1].url # branches[2].url
    /\ Len(appends) = 1
    /\ appends[1].item.url = branches[2].url[1]

\* ------------------------------------------------ no poll-count ceiling

\* C18: the poll loop has no ceiling of its own. While the invocation polls it
\* is not settled; a handle that is not done, however many came before it,
\* leads to one more sleep, whose timer is enabled and issues one more
\* refresh; polling ends only by a done handle or a failed call. With a timer
\* that fires and a provider that answers and eventually reports completion,
\* the invocation eventually settles.
C18_NoPollCeiling ==
    /\ [][kind' = "video" =>
             /\ pc \in {"sleeping", "awaitRefresh"} => settled = "pending"
             /\ pc = "sleeping" => ENABLED PollTimer
             /\ (pc = "sleeping" /\ pc' # pc) =>
                    (pc' = "awaitRefresh" /\ calls'.refresh = calls.refresh + 1)
             /\ (pc \in {"awaitSubmit", "awaitRefresh"} /\ pc' # pc
                   /\ raised'.at \notin {"submit", "refresh"}
                   /\ ~lastReturned'.done) =>
                    (pc' = "sleeping" /\ settled' = "pending")
             /\ (pc = "awaitRefresh" /\ pc' \notin {"awaitRefresh", "sleeping"}) =>
                    (lastReturned'.done \/ raised'.at = "refresh")]_vars
    /\ (pc = "awaitSubmit") ~> (settled # "pending")

\* The invocation is still polling after as many refreshes as the provider
\* may leave unfinished.
C18_Witness ==
    /\ kind = "video"
    /\ pc = "awaitRefresh"
    /\ calls.refresh = MaxPolls
    /\ messageIndex = MaxPolls
    /\ settled = "pending"

\* ------------------------------------------------ concurrent appends

\* The appends of user u that have been stored, in the order they were started.
StoredFor(u) == SelectSeq(appends, LAMBDA a : a.user = u /\ a.st = "stored")

ListOf(h, u) == IF u \in DOMAIN h THEN h[u] ELSE <<>>

\* C19: under concurrent forwards no append is lost or overwritten: a user's
\* history holds exactly one entry for each of that user's completed appends,
\* with that append's content and an id of its own; a write leaves the
\* entries stored before it as they were and changes no other user's list.
C19_NoAppendLost ==
    /\ [](\A u \in HistoryUsers :
             /\ Len(ListOf(history, u)) = Len(StoredFor(u))
             /\ \A i \in 1..Len(StoredFor(u)) :
                    /\ history[u][i].type = StoredFor(u)[i].item.type
                    /\ history[u][i].prompt = StoredFor(u)[i].item.prompt
                    /\ history[u][i].url = StoredFor(u)[i].item.url
                    /\ history[u][i].caption = StoredFor(u)[i].item.caption
             /\ \A v \in HistoryUsers :
                    \A i \in 1..Len(ListOf(history, u)), j \in 1..Len(ListOf(history, v)) :
                        (u # v \/ i # j) => history[u][i].id # history[v][j].id)
    /\ [][\A u \in HistoryUsers :
              /\ Len(ListOf(history', u)) >= Len(ListOf(history, u))
              /\ \A i \in 1..Len(ListOf(history, u)) : history'[u][i] = history[u][i]
              /\ ListOf(history', u) # ListOf(history, u) =>
                     /\ SomeAppendSleeping
                     /\ appends[NextAppend].user = u
                     /\ \A v \in HistoryUsers \ {u} :
                            ListOf(history', v) = ListOf(history, v)]_vars

\* Three forwards, started alternately for the two users, have all completed.
C19_Witness ==
    /\ Len(appends) = 3
    /\ \A i \in 1..3 : appends[i].st = "stored"
    /\ appends[1].user = "mock-user-123"
    /\ appends[2].user = "mock-user-456"
    /\ appends[3].user = "mock-user-123"
    /\ appends[1].item # appends[3].item
    /\ Len(history["mock-user-123"]) = 2
    /\ Len(history["mock-user-456"]) = 1

\* ------------------------------------------------ the saved conversation

NoChatOpSleeping == \A i \in 1..Len(chatOps) : chatOps[i].st # "sleeping"

\* C20: for a signed-in user, whenever an exchange has finished (isLoading
\* is false again) and no operation of the store is still under way, the
\* chat stored for the user equals the messages displayed; for a signed-out
\* user nothing is stored.
C20_SavedAutomatically ==
    /\ (user # Undefined /\ exchanges >= 1 /\ ~isLoading /\ NoChatOpSleeping) =>
           StoredChat(user[1]) = messages
    /\ (chatPc # "unmounted" /\ user = Undefined) => chats = <<>>

\* ------------------------------------------------ saveSheet is an upsert

DistinctSheetIds(list) ==
    \A i, j \in 1..Len(list) : i # j => list[i].id # list[j].id

\* C25: a user's stored sheet list never holds two sheets of one id; a write
\* of saveSheet replaces the sheet of that id where it is, or appends the
\* sheet when the id is new, and changes no other sheet and no other user's
\* list.
C25_SaveSheetUpserts ==
    /\ [](\A u \in HistoryUsers : DistinctSheetIds(StoredSheets(sheetsDb, u)))
    /\ [][sheetsDb' # sheetsDb =>
             \E i \in 1..Len(sheetOps) :
                 LET u == sheetOps[i].user
                     sheet == sheetOps[i].sheet
                     old == StoredSheets(sheetsDb, u)
                     new == StoredSheets(sheetsDb', u)
                 IN /\ sheetOps[i].kind = "save"
                    /\ sheetOps' = RemoveAt(sheetOps, i)
                    /\ \A v \in HistoryUsers \ {u} :
                           StoredSheets(sheetsDb', v) = StoredSheets(sheetsDb, v)
                    /\ IF \E k \in 1..Len(old) : old[k].id = sheet.id
                       THEN /\ Len(new) = Len(old)
                            /\ \A k \in 1..Len(old) :
                                   new[k] = IF old[k].id = sheet.id THEN sheet ELSE old[k]
                       ELSE new = Append(old, sheet)]_vars

\* Three writes for one user have left a list of two sheets, so one of them
\* replaced a sheet; the other user has no list.
C25_Witness ==
    /\ saveCalls = 3
    /\ sheetOps = <<>>
    /\ "mock-user-456" \notin DOMAIN sheetsDb
    /\ Len(StoredSheets(sheetsDb, "mock-user-123")) = 2
    /\ sheetsDb["mock-user-123"][1].id = <<"sheet-", 2>>
    /\ sheetsDb["mock-user-123"][1].prompts # <<>>
    /\ sheetsDb["mock-user-123"][2].id = <<"sheet-", 1>>

\* ------------------------------------------------ one prompt at a time

DistinctPromptIds(ps) == \A i, j \in 1..Len(ps) : i # j => ps[i].id # ps[j].id

Processing(ps) == {k \in 1..Len(ps) : ps[k].status = "processing"}

\* C21: in a sheet whose prompts have distinct ids, at most one prompt is in
\* status processing at any time, only while runSheet is under way, and it is
\* the prompt runSheet is processing; when no run is under way isProcessing is
\* false and no prompt is in status processing.
C21_OneAtATime ==
    (svPc # "unmounted" /\ activeSheet # Undefined
       /\ DistinctPromptIds(activeSheet[1].prompts)) =>
        /\ Cardinality(Processing(activeSheet[1].prompts)) <= 1
        /\ runPc = "none" =>
               (~isProcessing /\ Processing(activeSheet[1].prompts) = {})
        /\ runPc = "awaitGen" =>
               /\ isProcessing
               /\ \A k \in Processing(activeSheet[1].prompts) :
                      activeSheet[1].prompts[k].id = runPrompts[runIdx].id

\* ------------------------------------------------ the debounced save

DebounceTimers == {i \in 1..Len(sheetOps) : sheetOps[i].kind = "debounce"}

\* The stored sheet of the user that has the id of sheet a[1] equals it.
StoredEquals(a) ==
    /\ a # Undefined
    /\ \E k \in 1..Len(StoredSheets(sheetsDb, SheetUser)) : sheetsDb[SheetUser][k] = a[1]

\* C24: at most one debounce timer is running at any time, and the latest
\* active sheet is eventually the one stored under its id.
C24_DebouncedSave ==
    /\ [](Cardinality(DebounceTimers) <= 1)
    /\ (lastActive # Undefined) ~> StoredEquals(lastActive)

\* ---------------------------------------------------------------- C22

\* The user's stored history, as db.history holds it.
StoredHistory ==
    IF HistoryViewUser \in DOMAIN history THEN history[HistoryViewUser] ELSE <<>>

C23_NoCallAfterUnsubscribe ==
    [][\A s \in 1..Len(subs) :
           subs[s].unsubscribed => subs'[s].calls = subs[s].calls]_vars

\* ---------------------------------------------------------------- C26

\* The registered callback has received the notification of the initial state.
RegisteredAndNotified(s) == authStateChangeCallback = s /\ subs[s].notified

\* C26: the last value delivered to a registered callback that has received
\* its initial notification is currentUser, whatever logins and logouts took
\* place; and a login while a user is signed in changes nothing of the service
\* and calls no callback.
C26_DeliveredIsCurrent ==
    /\ [](\A s \in 1..Len(subs) : RegisteredAndNotified(s) => subs[s].last = currentUser)
    /\ [][(logins' = logins + 1 /\ currentUser # Undefined) =>
              UNCHANGED <<currentUser, authStateChangeCallback, isInitialized, subs>>]_vars

\* A registered callback has been told of a login and of a logout after its
\* initial notification, and a second login was made while signed in.
C26_Witness ==
    /\ logins = 2
    /\ logouts = 1
    /\ currentUser = Undefined
    /\ \E s \in 1..Len(subs) :
           /\ RegisteredAndNotified(s)
           /\ subs[s].calls = 3
           /\ subs[s].last = Undefined

\* ---------------------------------------------------------------- C27

\* state generatedImages is a list with an image, state generatedVideo is
\* not null.
ResultSet == gvResult # Undefined

ErrorSet == gvError # Undefined

\* C27: in the generator views, handleGenerate with a blank prompt sets an
\* error and issues no provider request; with any other prompt isLoading is
\* true while the generation call is awaited, and once handleGenerate has
\* gone past the settled call isLoading is false, exactly one of result and
\* error is set, and the loading message is empty.
C27_LoadingThenOneOutcome ==
    /\ [][(gvPhase # "blank" /\ gvPhase' = "blank") =>
              (gvError' # Undefined /\ calls' = calls)]_vars
    /\ [](gvPhase = "awaiting" => gvLoading)
    /\ [](gvPhase = "settled" =>
              /\ ~gvLoading
              /\ ResultSet # ErrorSet
              /\ LoadingMessage = "")

====
